---- MODULE Spec2Model ----
(***************************************************************************)
(* A model of lightwalletd's darkside (synthetic chain) state machine,     *)
(* common/darkside.go, and of the mempool exclusion filter of the frontend *)
(* service.                                                                *)
(*                                                                         *)
(* A block's bytes are modelled by the fields the code reads and writes:   *)
(*   height   the height the parser reports (block.GetHeight())           *)
(*   merkle   the header bytes that the code never rewrites                *)
(*   prev     bytes 4..35, the previous-block hash                         *)
(*   marker   byte 68, the first byte of HashFinalSaplingRoot              *)
(*   txcount  byte 1487, the transaction count                             *)
(*   txs      the transactions DarksideApplyStaged appended to the bytes   *)
(*   wf       whether the bytes, as staged, parse as a block with nothing  *)
(*            left over                                                    *)
(* A hash is the tuple of the header fields it is computed from, so two    *)
(* headers have the same hash exactly when they are equal.                 *)
(***************************************************************************)
EXTENDS Integers, Sequences, FiniteSets, TLC

VARIABLES
    resetted,              \* state.resetted
    startHeight,           \* state.startHeight
    saplingActivation,     \* state.saplingActivation
    branchID,              \* state.branchID
    chainName,             \* state.chainName
    latestHeight,          \* state.latestHeight
    activeBlocks,          \* state.activeBlocks
    stagedBlocks,          \* state.stagedBlocks
    incomingTransactions,  \* state.incomingTransactions
    stagedTransactions,    \* state.stagedTransactions
    ingestor,              \* whether the block ingestor is running
    lastErr,               \* what the last handler returned: "" is nil,
                           \* else the error text
    scenario,              \* which inputs the test driver of this run uses
    fItems,                \* MempoolFilter: the items argument
    fExclude,              \* MempoolFilter: the exclude argument
    fResult,               \* MempoolFilter: the returned list
    fDone,                 \* MempoolFilter: whether it has returned
    reply,                 \* what the last handler returned besides its
                           \* error: a block, a transaction, or nothing
    mempoolList,           \* var mempoolList []string
    mempoolMap,            \* var mempoolMap: nil, or the map it points to
    mapOwner,              \* the call whose newmempoolMap, still being
                           \* filled, the pointer mempoolMap addresses (0:
                           \* none)
    lastMempool,           \* var lastMempool time.Time, in seconds
    now,                   \* the clock, in seconds
    calls,                 \* the GetMempoolTx calls: position and locals
    builtFrom,             \* history: the id list the map mempoolMap points
                           \* to was built for, and whether it is complete
    addr,                  \* an address-taking query: its arguments, its
                           \* position, the requests it sent to the node
    mutex,                 \* state.mutex: whether a writer holds it, and
                           \* how many readers do
    commit,                \* a DarksideApplyStaged call in steps: its
                           \* position and locals
    readers                \* the getblock requests in steps

dsVars == <<resetted, startHeight, saplingActivation, branchID, chainName,
            latestHeight, activeBlocks, stagedBlocks, incomingTransactions,
            stagedTransactions, ingestor, lastErr>>
fVars == <<fItems, fExclude, fResult, fDone>>
mVars == <<mempoolList, mempoolMap, mapOwner, lastMempool, now, calls,
           builtFrom>>
oVars == <<addr, mutex, commit, readers>>
vars == <<dsVars, scenario, fVars, reply, mVars, oVars>>

-----------------------------------------------------------------------------
(* Bounds of the model *)

\* heights of the blocks and transactions the test driver stages
MaxHeight == 3
\* stagedBlocks holds at most this many blocks
MaxStaged == 2
\* stagedTransactions holds at most this many entries
MaxStagedTx == 2
\* incomingTransactions holds at most this many entries
MaxIncoming == 2
\* a block holds at most this many appended transactions
MaxPayload == 2
\* MempoolFilter: the items list holds at most this many strings
MaxItems == 3
\* MempoolFilter: the exclude list holds at most this many strings
MaxExclude == 2
\* MempoolFilter: a string holds at most this many characters
MaxStrLen == 2
\* the calls of GetMempoolTx that run at a time
MaxCalls == 2
\* the transactions the node's mempool holds at a time
MaxMempool == 2
\* the seconds the clock runs
MaxTime == 2
\* an address-taking query holds at most this many addresses
MaxAddrs == 2
\* the getblock requests that run at a time
MaxReaders == 1

(* Program constants *)

\* the transaction-count ceiling of DarksideApplyStaged
MaxTxCount == 253
\* a byte holds 0..255
ByteMod == 256

(***************************************************************************)
(* The inputs of a run.  A run of the model is one of four test sessions,  *)
(* which differ only in the inputs the driver draws from:                  *)
(*   "blocks"    stages up to MaxStaged blocks at heights 1..MaxHeight,    *)
(*               among them bytes that do not parse                        *)
(*   "txs"       stages one block at a time at heights 2..MaxHeight and up *)
(*               to MaxStagedTx transactions                               *)
(*   "incoming"  stages one block at a time, submits up to MaxIncoming     *)
(*               transactions and resets with either activation height     *)
(*   "reads"     stages one block and one transaction at a time and asks  *)
(*               the mock node for blocks and transactions                 *)
(* Every handler that changes the state runs in every session.             *)
(***************************************************************************)
Scenarios == {"blocks", "txs", "incoming", "reads"}

Heights == IF scenario = "blocks" THEN 1..MaxHeight ELSE 2..MaxHeight
StagedCap == IF scenario = "blocks" THEN MaxStaged ELSE 1
StagedTxCap ==
    IF scenario = "txs" THEN MaxStagedTx ELSE IF scenario = "reads" THEN 1 ELSE 0
IncomingCap == IF scenario = "incoming" THEN MaxIncoming ELSE 0

-----------------------------------------------------------------------------
(* Blocks, transactions and the parser *)

ZeroHash == <<>>

\* a previous-hash a staged block may carry that is the hash of no block
JunkHash == <<<<0, 0>>, 0, <<>>>>

\* block.GetEncodableHash(): the hash of the header as the bytes now hold it
Hash(b) == <<b.merkle, b.marker, b.prev>>

\* block.ParseFromSlice(bytes) succeeds and leaves nothing over
ParseOK(b) == b.wf /\ \A i \in 1..Len(b.txs) : b.txs[i].wf

\* a block the test driver stages as hex: it holds 252 transactions, its
\* previous-hash is the hash of no block and its byte 68 is 255
UserBlock(h) ==
    [height |-> h, merkle |-> <<0, 2>>, prev |-> JunkHash, marker |-> 255,
     txcount |-> 252, txs |-> <<>>, wf |-> TRUE]

\* bytes that do not parse as a block
BadBlock ==
    [height |-> 0, merkle |-> <<0, 0>>, prev |-> ZeroHash, marker |-> 0,
     txcount |-> 0, txs |-> <<>>, wf |-> FALSE]

UserBlocks ==
    IF scenario = "blocks" THEN {UserBlock(2), BadBlock} ELSE {UserBlock(2)}

\* the transactions a test driver or a wallet submits: one that parses, one
\* that does not
TxInputs == {[id |-> 1, wf |-> TRUE], [id |-> 2, wf |-> FALSE]}

\* a line of text: hex that decodes to bytes, text that is no hex, or the
\* text "404: Not Found" (which is no hex either)
Lines(S) ==
    [kind : {"hex"}, bytes : S] \cup [kind : {"nohex", "404"}, bytes : {CHOOSE x \in S : TRUE}]

\* hex.DecodeString(line) returns no error
HexOK(line) == line.kind = "hex"

NotReset == "please call Reset first"

\* a handler that returns nothing besides its error
NoReply == [kind |-> "none"]

\* var mempoolMap *map[string]*walletrpc.CompactTx when it is nil, and an
\* empty map
EmptyMap == [id \in {} |-> NoReply]
NilMap == [nil |-> TRUE, at |-> EmptyMap]

\* every handler but the two that read the chain returns no more than its
\* error, and touches neither the session nor the filter's variables
handlerFrame ==
    reply' = NoReply /\ UNCHANGED <<scenario, fVars, mVars, oVars>>

-----------------------------------------------------------------------------
(* regexp.Match on the Reset arguments *)

HexChars == {"0", "1", "2", "3", "4", "5", "6", "7", "8", "9",
             "a", "b", "c", "d", "e", "f", "A", "B", "C", "D", "E", "F"}
AlnumChars == HexChars \cup {"g", "m", "t", "z", "G", "Z"}

\* "\\A[a-fA-F0-9]+\\z"
MatchBranchID(s) == Len(s) > 0 /\ \A i \in 1..Len(s) : s[i] \in HexChars
\* "\\A[a-zA-Z0-9]+\\z"
MatchChainName(s) == Len(s) > 0 /\ \A i \in 1..Len(s) : s[i] \in AlnumChars

BranchInputs == {<<>>, <<"2", "b">>, <<"g">>}
ChainInputs == {<<"m">>, <<"-">>}
SaplingInputs == IF scenario = "incoming" THEN {1, 2} ELSE {1}

-----------------------------------------------------------------------------
(* DarksideReset *)

\* DarksideReset, had it kept the incoming transactions
DarksideResetKeepsIncoming(sa, bi, cn) ==
    /\ ingestor' = FALSE
    /\ resetted' = TRUE
    /\ saplingActivation' = sa
    /\ latestHeight' = -1
    /\ branchID' = bi
    /\ chainName' = cn
    /\ startHeight' = 0
    /\ activeBlocks' = <<>>
    /\ stagedBlocks' = <<>>
    /\ stagedTransactions' = <<>>
    /\ UNCHANGED incomingTransactions

DarksideReset(sa, bi, cn) ==
    /\ ingestor' = FALSE
    /\ resetted' = TRUE
    /\ saplingActivation' = sa
    /\ latestHeight' = -1
    /\ branchID' = bi
    /\ chainName' = cn
    /\ startHeight' = 0
    /\ activeBlocks' = <<>>
    /\ stagedBlocks' = <<>>
    /\ incomingTransactions' = <<>>
    /\ stagedTransactions' = <<>>

\* DarksideStreamer.Reset, called with these arguments
ResetCall(sa, bi, cn) ==
    /\ IF ~MatchBranchID(bi)
       THEN /\ lastErr' = "invalid branch ID"
            /\ UNCHANGED <<resetted, startHeight, saplingActivation, branchID,
                           chainName, latestHeight, activeBlocks, stagedBlocks,
                           incomingTransactions, stagedTransactions, ingestor>>
       ELSE IF ~MatchChainName(cn)
       THEN /\ lastErr' = "invalid chain name"
            /\ UNCHANGED <<resetted, startHeight, saplingActivation, branchID,
                           chainName, latestHeight, activeBlocks, stagedBlocks,
                           incomingTransactions, stagedTransactions, ingestor>>
       ELSE /\ DarksideReset(sa, bi, cn)
            /\ lastErr' = ""
    /\ reply' = NoReply
    /\ UNCHANGED <<scenario, fVars, lastMempool, now, calls, oVars>>
    /\ IF MatchBranchID(bi) /\ MatchChainName(cn)
       THEN /\ mempoolMap' = NilMap
            /\ mempoolList' = <<>>
            /\ mapOwner' = 0
            /\ builtFrom' = [list |-> <<>>, complete |-> TRUE]
       ELSE UNCHANGED <<mempoolMap, mempoolList, mapOwner, builtFrom>>

Reset ==
    \E sa \in SaplingInputs, bi \in BranchInputs, cn \in ChainInputs :
        ResetCall(sa, bi, cn)

-----------------------------------------------------------------------------
(* addBlockActive: the result of merging one staged block, as the record   *)
(* [active, start, block, err]; block is the staged bytes as the call      *)
(* leaves them (the active list and the staged list share them)            *)

\* keptBlocks, had it kept the range when the block lies below it
keptBlocksBelow(active, start, blockHeight) ==
    IF blockHeight > start + Len(active) THEN <<>>
    ELSE IF blockHeight < start THEN active
    ELSE SubSeq(active, 1, blockHeight - start)

\* keptBlocks, had it dropped the range when the block extends it by one
keptBlocksNoAppend(active, start, blockHeight) ==
    IF blockHeight >= start + Len(active) THEN <<>>
    ELSE IF blockHeight < start THEN <<>>
    ELSE SubSeq(active, 1, blockHeight - start)

\* the active blocks that addBlockActive keeps for a block of this height
keptBlocks(active, start, blockHeight) ==
    IF blockHeight > start + Len(active) THEN <<>>
    ELSE IF blockHeight < start THEN <<>>
    ELSE SubSeq(active, 1, blockHeight - start)

\* addBlockActive, had it appended the block without setting its prevhash
addBlockActiveUnlinked(active, start, blockBytes) ==
    IF ~ParseOK(blockBytes)
    THEN [active |-> active, start |-> start, block |-> blockBytes,
          err |-> "block does not parse"]
    ELSE
      LET blockHeight == blockBytes.height
          kept == keptBlocks(active, start, blockHeight)
      IN  IF Len(kept) = 0
          THEN [active |-> <<blockBytes>>, start |-> blockHeight,
                block |-> blockBytes, err |-> ""]
          ELSE IF ~ParseOK(kept[Len(kept)])
          THEN [active |-> kept, start |-> start, block |-> blockBytes,
                err |-> "block does not parse"]
          ELSE [active |-> Append(kept, blockBytes), start |-> start,
                block |-> blockBytes, err |-> ""]

addBlockActive(active, start, blockBytes) ==
    IF ~ParseOK(blockBytes)
    THEN [active |-> active, start |-> start, block |-> blockBytes,
          err |-> "block does not parse"]
    ELSE
      LET blockHeight == blockBytes.height
          kept == keptBlocks(active, start, blockHeight)
      IN  IF Len(kept) = 0
          THEN [active |-> <<blockBytes>>, start |-> blockHeight,
                block |-> blockBytes, err |-> ""]
          ELSE IF ~ParseOK(kept[Len(kept)])
          THEN [active |-> kept, start |-> start, block |-> blockBytes,
                err |-> "block does not parse"]
          ELSE LET linked == [blockBytes EXCEPT !.prev = Hash(kept[Len(kept)])]
               IN  [active |-> Append(kept, linked), start |-> start,
                    block |-> linked, err |-> ""]

\* the loop over state.stagedBlocks, had it taken the latest arrival first
RECURSIVE mergeStagedBackwards(_, _, _, _)
mergeStagedBackwards(active, start, staged, i) ==
    IF i > Len(staged)
    THEN [active |-> active, start |-> start, staged |-> staged, err |-> ""]
    ELSE LET k == Len(staged) + 1 - i
             r == addBlockActive(active, start, staged[k])
         IN  IF r.err # ""
             THEN [active |-> r.active, start |-> r.start, staged |-> staged,
                   err |-> r.err]
             ELSE mergeStagedBackwards(r.active, r.start,
                                       [staged EXCEPT ![k] = r.block], i + 1)

\* the loop over state.stagedBlocks of DarksideApplyStaged, from entry i on
RECURSIVE mergeStaged(_, _, _, _)
mergeStaged(active, start, staged, i) ==
    IF i > Len(staged)
    THEN [active |-> active, start |-> start, staged |-> staged, err |-> ""]
    ELSE LET r == addBlockActive(active, start, staged[i])
         IN  IF r.err # ""
             THEN [active |-> r.active, start |-> r.start, staged |-> staged,
                   err |-> r.err]
             ELSE mergeStaged(r.active, r.start,
                              [staged EXCEPT ![i] = r.block], i + 1)

-----------------------------------------------------------------------------
(* setPrevhash *)

RECURSIVE relink(_, _, _)
relink(blocks, i, prevhash) ==
    IF i > Len(blocks) THEN blocks
    ELSE LET linked == [blocks[i] EXCEPT !.prev = prevhash]
         IN  relink([blocks EXCEPT ![i] = linked], i + 1, Hash(linked))

\* setPrevhash, had it taken each block's hash before writing its prevhash
RECURSIVE relinkStale(_, _, _)
relinkStale(blocks, i, prevhash) ==
    IF i > Len(blocks) THEN blocks
    ELSE relinkStale([blocks EXCEPT ![i] = [blocks[i] EXCEPT !.prev = prevhash]],
                     i + 1, Hash(blocks[i]))

setPrevhashStale(active) == relinkStale(active, 1, ZeroHash)

setPrevhash(active) == relink(active, 1, ZeroHash)

\* setPrevhash ends the process (Log.Fatal) when an active block does not parse
setPrevhashFatal(active) == \E i \in 1..Len(active) : ~ParseOK(active[i])

Fatal == "fatal"

-----------------------------------------------------------------------------
(* DarksideApplyStaged *)

\* placeTx, had it left the transaction count alone
placeTxNoCount(block, tx) ==
    [block EXCEPT !.marker = (@ + 1) % ByteMod,
                  !.txs = Append(@, tx.bytes)]

\* the body of the loop over state.stagedTransactions for a placed transaction
placeTx(block, tx) ==
    [block EXCEPT !.txcount = (@ + 1) % ByteMod,
                  !.marker = (@ + 1) % ByteMod,
                  !.txs = Append(@, tx.bytes)]

\* the loop over state.stagedTransactions, had it passed over a transaction
\* whose height lies above the active blocks
RECURSIVE applyTxsSkipsHigh(_, _, _, _)
applyTxsSkipsHigh(active, start, txs, i) ==
    IF i > Len(txs) THEN [active |-> active, err |-> ""]
    ELSE LET tx == txs[i]
         IN  IF tx.height < start
             THEN [active |-> active, err |-> "transaction height too low"]
             ELSE IF tx.height >= start + Len(active)
             THEN applyTxsSkipsHigh(active, start, txs, i + 1)
             ELSE LET k == tx.height - start + 1
                  IN  IF active[k].txcount = MaxTxCount
                      THEN [active |-> active,
                            err |-> "too many transactions in a block (max 253)"]
                      ELSE applyTxsSkipsHigh(
                               [active EXCEPT ![k] = placeTx(active[k], tx)],
                               start, txs, i + 1)

\* the loop over state.stagedTransactions, from entry i on
RECURSIVE applyTxs(_, _, _, _)
applyTxs(active, start, txs, i) ==
    IF i > Len(txs) THEN [active |-> active, err |-> ""]
    ELSE LET tx == txs[i]
         IN  IF tx.height < start
             THEN [active |-> active, err |-> "transaction height too low"]
             ELSE IF tx.height >= start + Len(active)
             THEN [active |-> active, err |-> "transaction height too high"]
             ELSE LET k == tx.height - start + 1
                  IN  IF active[k].txcount = MaxTxCount
                      THEN [active |-> active,
                            err |-> "too many transactions in a block (max 253)"]
                      ELSE applyTxs([active EXCEPT ![k] = placeTx(active[k], tx)],
                                    start, txs, i + 1)

\* what the code does once the transaction loop has ended without an error
txsLeftOver(txs) == Len(txs) > 0

WithinPayload(active) == \A i \in 1..Len(active) : Len(active[i].txs) <= MaxPayload

\* the ingestor, had ApplyStaged started it whatever the chain holds
ingestorRunsAlways(active) == TRUE

\* "The block ingestor can only run if there are blocks": startIngestor when
\* this holds, stopIngestor when it does not
ingestorRuns(active) == Len(active) > 0

DarksideApplyStaged(height) ==
    IF ~resetted
    THEN /\ lastErr' = NotReset
         /\ UNCHANGED <<resetted, startHeight, saplingActivation, branchID,
                        chainName, latestHeight, activeBlocks, stagedBlocks,
                        incomingTransactions, stagedTransactions, ingestor>>
    ELSE
      LET m == mergeStaged(activeBlocks, startHeight, stagedBlocks, 1)
          t == applyTxs(m.active, m.start, stagedTransactions, 1)
      IN  /\ UNCHANGED <<resetted, saplingActivation, branchID, chainName,
                         incomingTransactions>>
          /\ IF m.err # ""
             THEN /\ activeBlocks' = m.active
                  /\ startHeight' = m.start
                  /\ stagedBlocks' = m.staged
                  /\ lastErr' = m.err
                  /\ UNCHANGED <<latestHeight, stagedTransactions, ingestor>>
             ELSE /\ WithinPayload(t.active)
                  /\ startHeight' = m.start
                  /\ stagedBlocks' = <<>>
                  /\ IF t.err # ""
                     THEN /\ activeBlocks' = t.active
                          /\ lastErr' = t.err
                          /\ UNCHANGED <<latestHeight, stagedTransactions, ingestor>>
                     ELSE IF txsLeftOver(stagedTransactions)
                     THEN /\ activeBlocks' = t.active
                          /\ lastErr' = "one or more transactions have no block"
                          /\ UNCHANGED <<latestHeight, stagedTransactions, ingestor>>
                     ELSE IF setPrevhashFatal(t.active)
                     THEN /\ activeBlocks' = t.active
                          /\ stagedTransactions' = <<>>
                          /\ lastErr' = Fatal
                          /\ UNCHANGED <<latestHeight, ingestor>>
                     ELSE /\ stagedTransactions' = <<>>
                          /\ activeBlocks' = setPrevhash(t.active)
                          /\ latestHeight' = height
                          /\ ingestor' = ingestorRuns(t.active)
                          /\ lastErr' = ""

\* DarksideStreamer.ApplyStaged, called with this height
ApplyStagedCall(height) ==
    /\ DarksideApplyStaged(height)
    /\ handlerFrame

ApplyStaged == \E height \in Heights : ApplyStagedCall(height)

-----------------------------------------------------------------------------
(* Staging *)

dsFrame == <<resetted, startHeight, saplingActivation, branchID, chainName,
             latestHeight, activeBlocks, ingestor>>

\* DarksideStageBlockStream: the staged list after the call, and its error
DarksideStageBlockStream(staged, line) ==
    IF ~HexOK(line)
    THEN [staged |-> staged, err |-> "encoding/hex: invalid byte"]
    ELSE [staged |-> Append(staged, line.bytes), err |-> ""]

\* the loop of DarksideStreamer.StageBlocksStream over the received blocks;
\* the value DarksideStageBlockStream returns is dropped
RECURSIVE stageStream(_, _, _)
stageStream(staged, lines, i) ==
    IF i > Len(lines) THEN staged
    ELSE stageStream(DarksideStageBlockStream(staged, lines[i]).staged, lines, i + 1)

BlockLines == Lines(UserBlocks)
BlockLineSeqs == UNION {[1..n -> BlockLines] : n \in 1..StagedCap}

\* DarksideStreamer.StageBlocksStream: the client sends lines, then closes the
\* stream (io.EOF) or the transport fails
StageBlocksStreamCall(lines, broken) ==
    /\ Len(stageStream(stagedBlocks, lines, 1)) <= StagedCap
    /\ stagedBlocks' = stageStream(stagedBlocks, lines, 1)
    /\ lastErr' = IF broken THEN "stream error" ELSE ""
    /\ UNCHANGED <<dsFrame, incomingTransactions, stagedTransactions>>
    /\ handlerFrame

StageBlocksStream ==
    \E lines \in BlockLineSeqs, broken \in BOOLEAN :
        StageBlocksStreamCall(lines, broken)

\* the scan loop of DarksideStageBlocks, from line i on
RECURSIVE scanLines(_, _, _)
scanLines(staged, lines, i) ==
    IF i > Len(lines) THEN [staged |-> staged, err |-> ""]
    ELSE IF lines[i].kind = "404"
    THEN [staged |-> staged, err |-> "404: Not Found"]
    ELSE IF ~HexOK(lines[i])
    THEN [staged |-> staged, err |-> "encoding/hex: invalid byte"]
    ELSE scanLines(Append(staged, lines[i].bytes), lines, i + 1)

\* DarksideStageBlocks(url): getOK is whether http.Get succeeded, lines is
\* the body of the response
DarksideStageBlocks(getOK, lines) ==
    IF ~resetted
    THEN /\ lastErr' = NotReset
         /\ UNCHANGED stagedBlocks
    ELSE IF ~getOK
    THEN /\ lastErr' = "http error"
         /\ UNCHANGED stagedBlocks
    ELSE /\ Len(scanLines(stagedBlocks, lines, 1).staged) <= StagedCap
         /\ stagedBlocks' = scanLines(stagedBlocks, lines, 1).staged
         /\ lastErr' = scanLines(stagedBlocks, lines, 1).err

\* DarksideStreamer.StageBlocks
StageBlocksCall(getOK, lines) ==
    /\ DarksideStageBlocks(getOK, lines)
    /\ UNCHANGED <<dsFrame, incomingTransactions, stagedTransactions>>
    /\ handlerFrame

StageBlocks ==
    \E getOK \in BOOLEAN, lines \in BlockLineSeqs \cup {<<>>} :
        StageBlocksCall(getOK, lines)

\* string(x) of an int32: the code point x, or U+FFFD when x is none
Rune(x) ==
    IF x < 0 \/ x > 1114111 \/ (55296 <= x /\ x <= 57343) THEN 65533 ELSE x

\* the block built, had its header hash taken in what is already staged
fakeBlockOfState(height, nonce) ==
    [height |-> height,
     merkle |-> <<Rune(nonce), Rune(height + Len(stagedBlocks))>>,
     prev |-> ZeroHash, marker |-> 0, txcount |-> 1, txs |-> <<>>, wf |-> TRUE]

\* the block DarksideStageBlocksCreate builds for a height and a nonce
fakeBlock(height, nonce) ==
    [height |-> height, merkle |-> <<Rune(nonce), Rune(height)>>,
     prev |-> ZeroHash, marker |-> 0, txcount |-> 1, txs |-> <<>>, wf |-> TRUE]

RECURSIVE createBlocks(_, _, _, _, _)
createBlocks(staged, height, nonce, count, i) ==
    IF i >= count THEN staged
    ELSE createBlocks(Append(staged, fakeBlock(height, nonce)),
                      height + 1, nonce, count, i + 1)

DarksideStageBlocksCreate(height, nonce, count) ==
    IF ~resetted
    THEN /\ lastErr' = NotReset
         /\ UNCHANGED stagedBlocks
    ELSE /\ Len(stagedBlocks) + count <= StagedCap
         /\ stagedBlocks' = createBlocks(stagedBlocks, height, nonce, count, 0)
         /\ lastErr' = ""

Nonces == {1}

\* DarksideStreamer.StageBlocksCreate, had it put the blocks it builds in the
\* active list
StageBlocksCreateActive(height, nonce, count) ==
    /\ IF ~resetted
       THEN /\ lastErr' = NotReset
            /\ UNCHANGED activeBlocks
       ELSE /\ Len(activeBlocks) + count <= MaxHeight
            /\ activeBlocks' = createBlocks(activeBlocks, height, nonce, count, 0)
            /\ lastErr' = ""
    /\ UNCHANGED <<resetted, startHeight, saplingActivation, branchID,
                   chainName, latestHeight, ingestor, stagedBlocks,
                   incomingTransactions, stagedTransactions>>
    /\ handlerFrame

\* DarksideStreamer.StageBlocksCreate, called with these arguments
StageBlocksCreateCall(height, nonce, count) ==
    /\ DarksideStageBlocksCreate(height, nonce, count)
    /\ UNCHANGED <<dsFrame, incomingTransactions, stagedTransactions>>
    /\ handlerFrame

StageBlocksCreate ==
    \E height \in Heights, nonce \in Nonces, count \in 0..StagedCap :
        StageBlocksCreateCall(height, nonce, count)

\* DarksideStageTransaction: the staged list after the call, and its error
DarksideStageTransaction(staged, height, txBytes) ==
    IF ~resetted
    THEN [staged |-> staged, err |-> NotReset]
    ELSE [staged |-> Append(staged, [height |-> height, bytes |-> txBytes]),
          err |-> ""]

\* the loop of DarksideStreamer.StageTransactionsStream, from entry i on
RECURSIVE stageTxStream(_, _, _)
stageTxStream(staged, txs, i) ==
    IF i > Len(txs) THEN [staged |-> staged, err |-> ""]
    ELSE LET r == DarksideStageTransaction(staged, txs[i].height, txs[i].bytes)
         IN  IF r.err # "" THEN r ELSE stageTxStream(r.staged, txs, i + 1)

StagedTxInputs == [height : Heights, bytes : TxInputs]
StagedTxSeqs == UNION {[1..n -> StagedTxInputs] : n \in 1..MaxStagedTx}

\* DarksideStreamer.StageTransactionsStream
StageTransactionsStream ==
    \E txs \in StagedTxSeqs :
        LET r == stageTxStream(stagedTransactions, txs, 1)
        IN  /\ Len(r.staged) <= StagedTxCap
            /\ stagedTransactions' = r.staged
            /\ lastErr' = r.err
            /\ UNCHANGED <<dsFrame, incomingTransactions, stagedBlocks>>
            /\ handlerFrame

-----------------------------------------------------------------------------
(* Incoming transactions *)

TxLines == Lines(TxInputs)

\* DarksideSendTransaction, had it not parsed the transaction
DarksideSendTransactionUnparsed(txHex) ==
    IF ~resetted
    THEN /\ lastErr' = NotReset
         /\ UNCHANGED incomingTransactions
    ELSE IF ~HexOK(txHex)
    THEN /\ lastErr' = "encoding/hex: invalid byte"
         /\ UNCHANGED incomingTransactions
    ELSE /\ Len(incomingTransactions) < IncomingCap
         /\ incomingTransactions' = Append(incomingTransactions, txHex.bytes)
         /\ lastErr' = ""

DarksideSendTransaction(txHex) ==
    IF ~resetted
    THEN /\ lastErr' = NotReset
         /\ UNCHANGED incomingTransactions
    ELSE IF ~HexOK(txHex)
    THEN /\ lastErr' = "encoding/hex: invalid byte"
         /\ UNCHANGED incomingTransactions
    ELSE IF ~txHex.bytes.wf
    THEN /\ lastErr' = "transaction does not parse"
         /\ UNCHANGED incomingTransactions
    ELSE /\ Len(incomingTransactions) < IncomingCap
         /\ incomingTransactions' = Append(incomingTransactions, txHex.bytes)
         /\ lastErr' = ""

\* a caller of DarksideSendTransaction, with this argument
SendTransactionCall(txHex) ==
    /\ DarksideSendTransaction(txHex)
    /\ UNCHANGED <<dsFrame, stagedBlocks, stagedTransactions>>
    /\ handlerFrame

SendTransaction == \E txHex \in TxLines : SendTransactionCall(txHex)

\* darksideRawRequest("sendrawtransaction", params): jsonOK is whether
\* params[0] is a JSON string
sendrawtransaction(jsonOK, rawtx) ==
    IF ~jsonOK
    THEN /\ lastErr' = "failed to parse sendrawtransaction JSON"
         /\ UNCHANGED incomingTransactions
    ELSE IF ~HexOK(rawtx)
    THEN /\ lastErr' = "failed to parse sendrawtransaction value as a hex string"
         /\ UNCHANGED incomingTransactions
    ELSE /\ Len(incomingTransactions) < IncomingCap
         /\ incomingTransactions' = Append(incomingTransactions, rawtx.bytes)
         /\ lastErr' = ""

\* RawRequest("sendrawtransaction", params), with these arguments
SendRawTransactionCall(jsonOK, rawtx) ==
    /\ sendrawtransaction(jsonOK, rawtx)
    /\ UNCHANGED <<dsFrame, stagedBlocks, stagedTransactions>>
    /\ handlerFrame

SendRawTransaction ==
    \E jsonOK \in BOOLEAN, rawtx \in TxLines :
        SendRawTransactionCall(jsonOK, rawtx)

DarksideClearIncomingTransactions ==
    incomingTransactions' = <<>>

\* DarksideStreamer.ClearIncomingTransactions
ClearIncomingTransactions ==
    /\ DarksideClearIncomingTransactions
    /\ lastErr' = ""
    /\ UNCHANGED <<dsFrame, stagedBlocks, stagedTransactions>>
    /\ handlerFrame

\* DarksideStreamer.GetIncomingTransactions: sends state.incomingTransactions
GetIncomingTransactions ==
    /\ lastErr' = ""
    /\ UNCHANGED <<dsFrame, stagedBlocks, stagedTransactions, incomingTransactions>>
    /\ handlerFrame

-----------------------------------------------------------------------------
(* MempoolFilter.  A string is a sequence of characters, a character a     *)
(* number; Go compares strings character by character                      *)

Chars == {1, 2}
Strings == UNION {[1..n -> Chars] : n \in 0..MaxStrLen}
ItemLists == UNION {[1..n -> Strings] : n \in 0..MaxItems}
ExcludeLists == UNION {[1..n -> Strings] : n \in 0..MaxExclude}

\* a < b on Go strings
StrLess(a, b) ==
    \E k \in 1..Len(b) :
        /\ \A j \in 1..(k - 1) : j <= Len(a) /\ a[j] = b[j]
        /\ (k > Len(a) \/ a[k] < b[k])

\* strings.HasPrefix(s, prefix)
HasPrefix(s, prefix) ==
    Len(prefix) <= Len(s) /\ SubSeq(s, 1, Len(prefix)) = prefix

\* sort.Slice(list, func(i, j) { return list[i] < list[j] }): insertion of
\* each element into the sorted list of those before it
RECURSIVE insertSorted(_, _)
insertSorted(sorted, x) ==
    IF Len(sorted) = 0 THEN <<x>>
    ELSE IF StrLess(x, sorted[1]) THEN <<x>> \o sorted
    ELSE <<sorted[1]>> \o insertSorted(Tail(sorted), x)

\* sortSlice, had it left the list in the order it came in
sortSliceUnsorted(list) == list

RECURSIVE sortSlice(_)
sortSlice(list) ==
    IF Len(list) = 0 THEN <<>>
    ELSE insertSorted(sortSlice(SubSeq(list, 1, Len(list) - 1)), list[Len(list)])

\* lessthan, had it compared the whole item
lessthanWhole(e, i) == StrLess(e, i)

\* the closure lessthan of MempoolFilter
lessthan(e, i) ==
    LET l == IF Len(e) > Len(i) THEN Len(i) ELSE Len(e)
    IN  StrLess(e, SubSeq(i, 1, l))

\* the inner loop: ei moves on while exclude[ei] is less than the item
\* (ei counts from 1 here)
RECURSIVE advance(_, _, _)
advance(exclude, ei, item) ==
    IF ei <= Len(exclude) /\ lessthan(exclude[ei], item)
    THEN advance(exclude, ei + 1, item)
    ELSE ei

\* match := ei < len(exclude) && strings.HasPrefix(item, exclude[ei])
isMatch(exclude, ei, item) ==
    ei <= Len(exclude) /\ HasPrefix(item, exclude[ei])

\* the first loop over items, from item k on: nmatches
RECURSIVE countMatches(_, _, _, _, _)
countMatches(items, exclude, k, ei, nmatches) ==
    IF k > Len(items) THEN nmatches
    ELSE LET e2 == advance(exclude, ei, items[k])
         IN  countMatches(items, exclude, k + 1, e2,
                 IF isMatch(exclude, e2, items[k])
                 THEN [nmatches EXCEPT ![e2] = @ + 1]
                 ELSE nmatches)

\* sendItem, had it left out the test of nmatches
sendItemUnmatched(match, n) == ~match

\* the condition under which the second loop appends the item to tosend
sendItem(match, n) == ~match \/ n > 1

\* the second loop over items, from item k on: tosend
RECURSIVE selectItems(_, _, _, _, _, _)
selectItems(items, exclude, nmatches, k, ei, tosend) ==
    IF k > Len(items) THEN tosend
    ELSE LET e2 == advance(exclude, ei, items[k])
             match == isMatch(exclude, e2, items[k])
         IN  selectItems(items, exclude, nmatches, k + 1, e2,
                 IF sendItem(match, IF match THEN nmatches[e2] ELSE 0)
                 THEN Append(tosend, items[k])
                 ELSE tosend)

MempoolFilter(items, exclude) ==
    LET si == sortSlice(items)
        se == sortSlice(exclude)
        nmatches == countMatches(si, se, 1, 1, [i \in 1..Len(se) |-> 0])
    IN  selectItems(si, se, nmatches, 1, 1, <<>>)

\* a call of MempoolFilter: the two slices are sorted in place
CallMempoolFilter ==
    /\ ~fDone
    /\ fResult' = MempoolFilter(fItems, fExclude)
    /\ fItems' = sortSlice(fItems)
    /\ fExclude' = sortSlice(fExclude)
    /\ fDone' = TRUE
    /\ UNCHANGED <<dsVars, scenario, reply, mVars, oVars>>

-----------------------------------------------------------------------------
(* Reading the chain: darksideRawRequest *)

\* the heights and transaction ids the mock node is asked for
ReadHeights == IF scenario = "reads" THEN 1..(MaxHeight + 1) ELSE {}
ReadTxids == IF scenario = "reads" THEN {1, 10 + MaxHeight} ELSE {}

\* params[0] of getblock: a JSON string of digits, no JSON string, or a JSON
\* string that is no integer
HeightParams == {"int", "nojson", "noint"}

\* params[0] of getrawtransaction: a quoted string of 64 hex digits, a quoted
\* string of 64 characters that are no hex, or fewer than 65 bytes
TxidParams == {"hex", "nohex", "short"}

NotFound == "-8:"
NoInformation == "-5: No information available about transaction"

\* a run-time panic (index or slice bounds out of range) ends the process
Panic == "panic"

\* case "getblock" of darksideRawRequest: the error and the reply
getblock(param, height) ==
    IF param = "nojson"
    THEN [err |-> "failed to parse getblock request", reply |-> NoReply]
    ELSE IF param = "noint"
    THEN [err |-> "error parsing height as integer", reply |-> NoReply]
    ELSE IF Len(activeBlocks) = 0
    THEN [err |-> NotFound, reply |-> NoReply]
    ELSE IF height > latestHeight
    THEN [err |-> NotFound, reply |-> NoReply]
    ELSE LET index == height - startHeight
         IN  IF index < 0 \/ index >= Len(activeBlocks)
             THEN [err |-> Panic, reply |-> NoReply]
             ELSE [err |-> "",
                   reply |-> [kind |-> "block", bytes |-> activeBlocks[index + 1]]]

\* RawRequest("getblock", params), with these arguments
GetBlockCall(param, height) ==
    /\ lastErr' = getblock(param, height).err
    /\ reply' = getblock(param, height).reply
    /\ UNCHANGED <<dsFrame, stagedBlocks, stagedTransactions,
                   incomingTransactions>>
    /\ UNCHANGED <<scenario, fVars, mVars, oVars>>

GetBlock ==
    \E param \in HeightParams, height \in ReadHeights :
        GetBlockCall(param, height)

\* tx.GetDisplayHash() of the coinbase transaction every block begins with,
\* which holds the block's height
CoinbaseId(b) == 10 + b.height

\* block.Transactions(): the block's own transactions (of which the model
\* keeps the coinbase) and those ApplyStaged appended
Transactions(b) == <<[id |-> CoinbaseId(b), wf |-> TRUE]>> \o b.txs

\* the loop over block.Transactions(): the first with this id, or 0
firstTx(txs, txid) ==
    IF \E j \in 1..Len(txs) : txs[j].id = txid
    THEN CHOOSE j \in 1..Len(txs) :
             /\ txs[j].id = txid
             /\ \A k \in 1..(j - 1) : txs[k].id # txid
    ELSE 0

\* the loop over state.activeBlocks, had it passed over a block that does
\* not parse
RECURSIVE scanBlocksSkipping(_, _, _)
scanBlocksSkipping(active, i, txid) ==
    IF i > Len(active)
    THEN [err |-> NoInformation, reply |-> NoReply]
    ELSE LET txs == Transactions(active[i])
             j == firstTx(txs, txid)
         IN  IF ParseOK(active[i]) /\ j > 0
             THEN [err |-> "",
                   reply |-> [kind |-> "tx", hex |-> txs[j],
                              height |-> active[i].height]]
             ELSE scanBlocksSkipping(active, i + 1, txid)

\* the loop over state.activeBlocks, from block i on
RECURSIVE scanBlocks(_, _, _)
scanBlocks(active, i, txid) ==
    IF i > Len(active)
    THEN [err |-> NoInformation, reply |-> NoReply]
    ELSE IF ~ParseOK(active[i])
    THEN [err |-> "-9: block does not parse", reply |-> NoReply]
    ELSE LET txs == Transactions(active[i])
             j == firstTx(txs, txid)
         IN  IF j > 0
             THEN [err |-> "",
                   reply |-> [kind |-> "tx", hex |-> txs[j],
                              height |-> active[i].height]]
             ELSE scanBlocks(active, i + 1, txid)

darksideGetRawTransaction(param, txid) ==
    IF ~resetted
    THEN [err |-> NotReset, reply |-> NoReply]
    ELSE IF param = "short"
    THEN [err |-> Panic, reply |-> NoReply]
    ELSE IF param = "nohex"
    THEN [err |-> "-9: encoding/hex: invalid byte", reply |-> NoReply]
    ELSE scanBlocks(activeBlocks, 1, txid)

\* RawRequest("getrawtransaction", params), with these arguments
GetRawTransactionCall(param, txid) ==
    /\ lastErr' = darksideGetRawTransaction(param, txid).err
    /\ reply' = darksideGetRawTransaction(param, txid).reply
    /\ UNCHANGED <<dsFrame, stagedBlocks, stagedTransactions,
                   incomingTransactions>>
    /\ UNCHANGED <<scenario, fVars, mVars, oVars>>

GetRawTransaction ==
    \E param \in TxidParams, txid \in ReadTxids :
        GetRawTransactionCall(param, txid)

-----------------------------------------------------------------------------
(* GetMempoolTx: the snapshot of the node's mempool.  The handler holds no *)
(* lock; a call is a sequence of steps between which other calls run.      *)

\* time.Since(lastMempool).Seconds() >= 2
RefreshSeconds == 2

\* the zero time.Time lastMempool starts with lies long before the clock's 0
ZeroTime == 0 - RefreshSeconds

Calls == 1..MaxCalls

\* the ids of the transactions the node's mempool may hold, as the hex
\* strings getrawmempool lists
MempoolIds == {<<1, 2, 2, 1>>, <<2, 1, 1, 2>>}

\* what getrawmempool may list: any ids, no id twice, in any order
NodeMempools ==
    {l \in UNION {[1..n -> MempoolIds] : n \in 0..MaxMempool} :
        \A i, j \in 1..Len(l) : i # j => l[i] # l[j]}

\* what the node answers a getrawtransaction: the transaction, an error (the
\* transaction has left the mempool), or bytes with data left over
TxAnswers == {"tx", "gone", "extra"}

\* tx.HasSaplingElements() and tx.ToCompact(0) of the transaction with this
\* id, and the &walletrpc.CompactTx{} stored for one without such elements
HasSaplingElements(id) == id = <<2, 1, 1, 2>>
ToCompact(id) == [Hash |-> id]
EmptyCompactTx == [Hash |-> <<>>]

\* exclude.Txid of a call: byte strings, 18 = 0x12 and 33 = 0x21
ExcludeInputs == {<<>>, <<<<18>>>>, <<<<18, 33>>>>}

\* parser.Reverse
Reverse(b) == [i \in 1..Len(b) |-> b[Len(b) + 1 - i]]

\* hex.EncodeToString: two hex digits a byte
EncodeToString(b) ==
    [i \in 1..(2 * Len(b)) |->
        IF i % 2 = 1 THEN b[(i + 1) \div 2] \div 16 ELSE b[i \div 2] % 16]

excludeHex(exclude) ==
    [i \in 1..Len(exclude) |-> EncodeToString(Reverse(exclude[i]))]

\* a call that is not running
IdleCall ==
    [pc |-> "idle", time |-> ZeroTime, refresh |-> FALSE, exclude |-> <<>>,
     listed |-> <<>>,
     view |-> <<>>, idx |-> 0, prev |-> EmptyMap, newmempoolMap |-> EmptyMap,
     fetched |-> {}, sent |-> <<>>, err |-> ""]

mInit ==
    /\ mempoolList = <<>>
    /\ mempoolMap = NilMap
    /\ mapOwner = 0
    /\ lastMempool = ZeroTime
    /\ now = 0
    /\ calls = [c \in Calls |-> IdleCall]
    /\ builtFrom = [list |-> <<>>, complete |-> TRUE]

\* a panic in one call has ended the process
Crashed == \E c \in Calls : calls[c].err = Panic

mFrame == UNCHANGED <<dsVars, scenario, fVars, reply, oVars>>

\* m[id] = e
put(m, id, e) == [x \in DOMAIN m \cup {id} |-> IF x = id THEN e ELSE m[x]]

\* The slice a call ranges over shares its array with mempoolList, which
\* json.Unmarshal and sort.Slice write in place: a write by another call may
\* or may not show in the elements the loop has yet to read.
overwritten(view, array) ==
    [i \in 1..Len(view) |-> IF i <= Len(array) THEN array[i] ELSE view[i]]

raced(c, hit, array) ==
    [d \in Calls |->
        IF d \in hit
        THEN [calls[d] EXCEPT !.view = overwritten(@, array)]
        ELSE calls[d]]

Ranging(c) == {d \in Calls \ {c} : calls[d].pc = "loop"}

\* the test of line 511, had it let every call refresh
dueAlways(since) == TRUE

\* line 511: time.Since(lastMempool).Seconds() >= 2
due(since) == since >= RefreshSeconds

\* line 511-512: the call begins; it refreshes when two seconds have passed
Enter(c) ==
    /\ ~Crashed
    /\ calls[c].pc = "idle"
    /\ IF due(now - lastMempool)
       THEN /\ lastMempool' = now
            /\ calls' = [calls EXCEPT ![c] =
                   [IdleCall EXCEPT !.pc = "list", !.time = now,
                                    !.refresh = TRUE]]
       ELSE /\ UNCHANGED lastMempool
            /\ calls' = [calls EXCEPT ![c] =
                   [IdleCall EXCEPT !.pc = "stream", !.time = now]]
    /\ UNCHANGED <<mempoolList, mempoolMap, mapOwner, now, builtFrom>>
    /\ mFrame

\* lines 514-526: getrawmempool is answered with an error
FetchListFails(c) ==
    /\ ~Crashed
    /\ calls[c].pc = "list"
    /\ calls' = [calls EXCEPT ![c].pc = "idle", ![c].err = "rpc error"]
    /\ UNCHANGED <<mempoolList, mempoolMap, mapOwner, lastMempool, now,
                   builtFrom>>
    /\ mFrame

\* lines 514-526: getrawmempool is answered with a list, which is decoded
\* into mempoolList; a nil mempoolMap is pointed at the new, empty map
FetchList(c) ==
    /\ ~Crashed
    /\ calls[c].pc = "list"
    /\ \E list \in NodeMempools, hit \in SUBSET Ranging(c) :
        /\ mempoolList' = list
        /\ calls' = [raced(c, hit, list) EXCEPT
                        ![c].pc = "loop",
                        ![c].listed = list,
                        ![c].view = list,
                        ![c].idx = 1,
                        ![c].prev = mempoolMap.at]
        /\ IF mempoolMap.nil
           THEN /\ mempoolMap' = [nil |-> FALSE, at |-> EmptyMap]
                /\ mapOwner' = c
                /\ builtFrom' = [list |-> list, complete |-> FALSE]
           ELSE UNCHANGED <<mempoolMap, mapOwner, builtFrom>>
    /\ UNCHANGED <<lastMempool, now>>
    /\ mFrame

\* newmempoolMap[txidstr] = e, seen through mempoolMap when it points there
store(c, id, e) ==
    /\ calls' = [calls EXCEPT ![c].newmempoolMap = put(@, id, e),
                              ![c].idx = @ + 1]
    /\ IF mapOwner = c
       THEN mempoolMap' = [mempoolMap EXCEPT !.at = put(@, id, e)]
       ELSE UNCHANGED mempoolMap

\* lines 527-566: one iteration of the loop over mempoolList
Iterate(c) ==
    /\ ~Crashed
    /\ calls[c].pc = "loop"
    /\ calls[c].idx <= Len(calls[c].view)
    /\ LET txidstr == calls[c].view[calls[c].idx]
       IN  IF txidstr \in DOMAIN mempoolMap.at
           THEN store(c, txidstr, mempoolMap.at[txidstr])
           ELSE \E answer \in TxAnswers :
                  IF answer = "gone"
                  THEN /\ calls' = [calls EXCEPT
                              ![c].fetched = @ \cup {txidstr},
                              ![c].idx = @ + 1]
                       /\ UNCHANGED mempoolMap
                  ELSE IF answer = "extra"
                  THEN /\ calls' = [calls EXCEPT
                              ![c].fetched = @ \cup {txidstr},
                              ![c].pc = "idle",
                              ![c].err = "extra data deserializing transaction"]
                       /\ UNCHANGED mempoolMap
                  ELSE /\ calls' = [calls EXCEPT
                              ![c].fetched = @ \cup {txidstr},
                              ![c].newmempoolMap =
                                  put(@, txidstr,
                                      IF HasSaplingElements(txidstr)
                                      THEN ToCompact(txidstr)
                                      ELSE EmptyCompactTx),
                              ![c].idx = @ + 1]
                       /\ IF mapOwner = c
                          THEN mempoolMap' = [mempoolMap EXCEPT !.at =
                                  put(@, txidstr,
                                      IF HasSaplingElements(txidstr)
                                      THEN ToCompact(txidstr)
                                      ELSE EmptyCompactTx)]
                          ELSE UNCHANGED mempoolMap
    /\ UNCHANGED <<mempoolList, mapOwner, lastMempool, now, builtFrom>>
    /\ mFrame

\* line 567: mempoolMap = &newmempoolMap
Publish(c) ==
    /\ ~Crashed
    /\ calls[c].pc = "loop"
    /\ calls[c].idx > Len(calls[c].view)
    /\ mempoolMap' = [nil |-> FALSE, at |-> calls[c].newmempoolMap]
    /\ mapOwner' = 0
    /\ builtFrom' = [list |-> calls[c].listed, complete |-> TRUE]
    /\ calls' = [calls EXCEPT ![c].pc = "stream"]
    /\ UNCHANGED <<mempoolList, lastMempool, now>>
    /\ mFrame

\* the loop of lines 573-581 from item i on: what was sent, and the error
RECURSIVE sendLoop(_, _, _)
sendLoop(items, i, sent) ==
    IF i > Len(items) THEN [sent |-> sent, err |-> ""]
    ELSE IF mempoolMap.nil \/ items[i] \notin DOMAIN mempoolMap.at
    THEN [sent |-> sent, err |-> Panic]
    ELSE LET tx == mempoolMap.at[items[i]]
         IN  IF Len(tx.Hash) > 0
             THEN sendLoop(items, i + 1, Append(sent, tx))
             ELSE sendLoop(items, i + 1, sent)

\* lines 569-582: the call filters mempoolList, which is sorted in place,
\* and sends the entries
Stream(c) ==
    /\ ~Crashed
    /\ calls[c].pc = "stream"
    /\ \E exclude \in ExcludeInputs, hit \in SUBSET Ranging(c) :
        LET r == sendLoop(MempoolFilter(mempoolList, excludeHex(exclude)),
                          1, <<>>)
        IN  /\ mempoolList' = sortSlice(mempoolList)
            /\ calls' = [raced(c, hit, sortSlice(mempoolList)) EXCEPT
                            ![c].pc = "idle",
                            ![c].exclude = exclude,
                            ![c].sent = r.sent,
                            ![c].err = r.err]
    /\ UNCHANGED <<mempoolMap, mapOwner, lastMempool, now, builtFrom>>
    /\ mFrame

\* a second passes
Tick ==
    /\ ~Crashed
    /\ now < MaxTime
    /\ now' = now + 1
    /\ UNCHANGED <<mempoolList, mempoolMap, mapOwner, lastMempool, calls,
                   builtFrom>>
    /\ mFrame

-----------------------------------------------------------------------------
(* The address-taking queries: getTaddressBalanceZcashdRpc, getAddressUtxos *)
(* and GetTaddressTxids, each a check of the addresses followed by one     *)
(* request to the node                                                     *)

\* the {34} of "\\At[a-zA-Z0-9]{34}\\z"
AddrLen == 34

InvalidAddress == "invalid address"

Fill(c, n) == [i \in 1..n |-> c]

\* checkTaddress, had it tested the prefix and the alphabet, not the length
checkTaddressAnyLength(taddr) ==
    IF /\ Len(taddr) >= 1
       /\ taddr[1] = "t"
       /\ \A i \in 2..Len(taddr) : taddr[i] \in AlnumChars
    THEN ""
    ELSE InvalidAddress

\* regexp.Match("\\At[a-zA-Z0-9]{34}\\z", taddr)
checkTaddress(taddr) ==
    IF /\ Len(taddr) = 1 + AddrLen
       /\ taddr[1] = "t"
       /\ \A i \in 2..Len(taddr) : taddr[i] \in AlnumChars
    THEN ""
    ELSE InvalidAddress

\* the addresses a client supplies: two that match, and one each that is
\* empty, too short, too long, without the prefix, and with a character
\* outside the alphabet
AddrInputs ==
    {<<"t">> \o Fill("a", AddrLen),
     <<"t">> \o Fill("Z", AddrLen),
     <<>>,
     <<"t">> \o Fill("a", AddrLen - 1),
     <<"t">> \o Fill("a", AddrLen + 1),
     <<"z">> \o Fill("a", AddrLen),
     <<"t">> \o Fill("a", AddrLen - 1) \o <<"-">>}

AddrLists == UNION {[1..n -> AddrInputs] : n \in 0..MaxAddrs}

\* addressBlockFilter.Range of GetTaddressTxids
RangeInputs == {"ok", "norange", "nostart", "noend"}

\* the method each query asks the node
AddrMethod ==
    [balance |-> "getaddressbalance", utxos |-> "getaddressutxos",
     txids |-> "getaddresstxids"]

\* no query is running
IdleAddr ==
    [kind |-> "balance", pc |-> "idle", addresses |-> <<>>, range |-> "ok",
     idx |-> 1, err |-> "", requests |-> <<>>]

\* the queries a client may make: balance and UTXO list take a list of
\* addresses, address txids takes one address and a block range
AddrQueries ==
    {[IdleAddr EXCEPT !.kind = k, !.pc = "check", !.addresses = l] :
        k \in {"balance", "utxos"}, l \in AddrLists}
    \cup
    {[IdleAddr EXCEPT !.kind = "txids", !.pc = "check", !.addresses = <<a>>,
                      !.range = r] :
        a \in AddrInputs, r \in RangeInputs}

aFrame == UNCHANGED <<dsVars, scenario, fVars, reply, mVars, mutex, commit,
                      readers>>

\* one iteration of the loop over the addresses (the one test of
\* GetTaddressTxids): the query returns the error of the first address that
\* fails the check
CheckAddress ==
    /\ addr.pc = "check"
    /\ addr.idx <= Len(addr.addresses)
    /\ addr' = IF checkTaddress(addr.addresses[addr.idx]) # ""
               THEN [addr EXCEPT !.pc = "done",
                                 !.err = checkTaddress(addr.addresses[addr.idx])]
               ELSE [addr EXCEPT !.idx = @ + 1]
    /\ aFrame

\* GetTaddressTxids lines 125-133: the block range must be given
CheckRange ==
    /\ addr.pc = "check"
    /\ addr.idx > Len(addr.addresses)
    /\ addr.kind = "txids"
    /\ addr' = IF addr.range = "norange"
               THEN [addr EXCEPT !.pc = "done",
                                 !.err = "block range is required"]
               ELSE IF addr.range = "nostart"
               THEN [addr EXCEPT !.pc = "done",
                                 !.err = "start block height is required"]
               ELSE IF addr.range = "noend"
               THEN [addr EXCEPT !.pc = "done",
                                 !.err = "end block height is required"]
               ELSE [addr EXCEPT !.pc = "request"]
    /\ aFrame

\* the two list queries go from the loop to the request
ChecksPassed ==
    /\ addr.pc = "check"
    /\ addr.idx > Len(addr.addresses)
    /\ addr.kind # "txids"
    /\ addr' = [addr EXCEPT !.pc = "request"]
    /\ aFrame

\* common.RawRequest(method, params): the node answers or fails
IssueRequest ==
    /\ addr.pc = "request"
    /\ \E rpcErr \in {"", "rpc error"} :
        addr' = [addr EXCEPT !.pc = "done",
                             !.err = rpcErr,
                             !.requests = Append(@, AddrMethod[addr.kind])]
    /\ aFrame

-----------------------------------------------------------------------------
(* state.mutex, and DarksideApplyStaged and getblock as the steps they     *)
(* take while they hold it                                                 *)

Readers == 1..MaxReaders

FreeMutex == [writer |-> FALSE, readers |-> 0]

\* no DarksideApplyStaged is running; blocks and txs are the slices its two
\* range loops go over
IdleCommit ==
    [pc |-> "idle", height |-> 0, i |-> 1, err |-> "", blocks |-> <<>>,
     txs |-> <<>>]

\* no getblock is running; waited tells whether a writer held the mutex
\* when the request came
IdleReader == [pc |-> "idle", height |-> 0, waited |-> FALSE]

oInit ==
    /\ addr = IdleAddr
    /\ mutex = FreeMutex
    /\ commit = IdleCommit
    /\ readers = [r \in Readers |-> IdleReader]

lFrame == UNCHANGED <<scenario, fVars, mVars, addr>>

\* state.mutex.Lock() returns: no writer and no reader holds the mutex
canLock(m) == ~m.writer /\ m.readers = 0

\* RLock, had it let a reader in beside a writer
canRLockAlways(m) == TRUE

\* state.mutex.RLock() returns: no writer holds the mutex
canRLock(m) == ~m.writer

\* lines 158-162: the Commit takes the lock, then tests resetted
CommitLock(height) ==
    /\ commit.pc = "idle"
    /\ canLock(mutex)
    /\ mutex' = [mutex EXCEPT !.writer = TRUE]
    /\ commit' = IF resetted
                 THEN [IdleCommit EXCEPT !.pc = "merge", !.height = height,
                                         !.blocks = stagedBlocks]
                 ELSE [IdleCommit EXCEPT !.pc = "return", !.height = height,
                                         !.err = NotReset]
    /\ UNCHANGED <<dsVars, reply, readers>>
    /\ lFrame

\* lines 164-168: one iteration of the loop over the staged blocks
CommitMerge ==
    /\ commit.pc = "merge"
    /\ commit.i <= Len(commit.blocks)
    /\ LET r == addBlockActive(activeBlocks, startHeight, commit.blocks[commit.i])
       IN  /\ activeBlocks' = r.active
           /\ startHeight' = r.start
           /\ IF r.err # ""
              THEN /\ commit' = [commit EXCEPT !.pc = "return", !.err = r.err]
                   /\ UNCHANGED stagedBlocks
              ELSE /\ commit' = [commit EXCEPT !.i = @ + 1,
                                               !.blocks[commit.i] = r.block]
                   /\ stagedBlocks' =
                          IF commit.i <= Len(stagedBlocks)
                          THEN [stagedBlocks EXCEPT ![commit.i] = r.block]
                          ELSE stagedBlocks
    /\ UNCHANGED <<resetted, saplingActivation, branchID, chainName,
                   latestHeight, incomingTransactions, stagedTransactions,
                   ingestor, lastErr, reply, mutex, readers>>
    /\ lFrame

\* line 169: state.stagedBlocks = state.stagedBlocks[:0]
CommitMerged ==
    /\ commit.pc = "merge"
    /\ commit.i > Len(commit.blocks)
    /\ stagedBlocks' = <<>>
    /\ commit' = [commit EXCEPT !.pc = "txs", !.i = 1,
                                !.txs = stagedTransactions]
    /\ UNCHANGED <<resetted, startHeight, saplingActivation, branchID,
                   chainName, latestHeight, activeBlocks,
                   incomingTransactions, stagedTransactions, ingestor,
                   lastErr, reply, mutex, readers>>
    /\ lFrame

\* lines 174-189: one iteration of the loop over the staged transactions
CommitTx ==
    /\ commit.pc = "txs"
    /\ commit.i <= Len(commit.txs)
    /\ LET t == applyTxs(activeBlocks, startHeight, <<commit.txs[commit.i]>>, 1)
       IN  /\ WithinPayload(t.active)
           /\ activeBlocks' = t.active
           /\ commit' = IF t.err # ""
                        THEN [commit EXCEPT !.pc = "return", !.err = t.err]
                        ELSE [commit EXCEPT !.i = @ + 1]
    /\ UNCHANGED <<resetted, startHeight, saplingActivation, branchID,
                   chainName, latestHeight, stagedBlocks,
                   incomingTransactions, stagedTransactions, ingestor,
                   lastErr, reply, mutex, readers>>
    /\ lFrame

\* lines 190-192: the test that follows the loop
CommitTxsDone ==
    /\ commit.pc = "txs"
    /\ commit.i > Len(commit.txs)
    /\ commit' = IF txsLeftOver(stagedTransactions)
                 THEN [commit EXCEPT !.pc = "return",
                          !.err = "one or more transactions have no block"]
                 ELSE [commit EXCEPT !.pc = "relink"]
    /\ UNCHANGED <<dsVars, reply, mutex, readers>>
    /\ lFrame

\* lines 193-202: the relink, the new latestHeight and the ingestor
CommitRelink ==
    /\ commit.pc = "relink"
    /\ stagedTransactions' = <<>>
    /\ IF setPrevhashFatal(activeBlocks)
       THEN /\ lastErr' = Fatal
            /\ UNCHANGED <<activeBlocks, latestHeight, ingestor, commit>>
       ELSE /\ activeBlocks' = setPrevhash(activeBlocks)
            /\ latestHeight' = commit.height
            /\ ingestor' = ingestorRuns(activeBlocks)
            /\ commit' = [commit EXCEPT !.pc = "return", !.err = ""]
            /\ UNCHANGED lastErr
    /\ UNCHANGED <<resetted, startHeight, saplingActivation, branchID,
                   chainName, stagedBlocks, incomingTransactions, reply,
                   mutex, readers>>
    /\ lFrame

\* the Commit returns: the deferred Unlock of line 159
CommitReturn ==
    /\ commit.pc = "return"
    /\ lastErr' = commit.err
    /\ reply' = NoReply
    /\ mutex' = [mutex EXCEPT !.writer = FALSE]
    /\ commit' = IdleCommit
    /\ UNCHANGED <<resetted, startHeight, saplingActivation, branchID,
                   chainName, latestHeight, activeBlocks, stagedBlocks,
                   incomingTransactions, stagedTransactions, ingestor,
                   readers>>
    /\ lFrame

\* lines 350-359: a getblock request has parsed its height and asks for the
\* shared lock
ReadRequest(r, height) ==
    /\ readers[r].pc = "idle"
    /\ readers' = [readers EXCEPT ![r] =
           [pc |-> "wait", height |-> height, waited |-> mutex.writer]]
    /\ UNCHANGED <<dsVars, reply, mutex, commit>>
    /\ lFrame

\* line 360: state.mutex.RLock() returns
ReadLock(r) ==
    /\ readers[r].pc = "wait"
    /\ canRLock(mutex)
    /\ mutex' = [mutex EXCEPT !.readers = @ + 1]
    /\ readers' = [readers EXCEPT ![r].pc = "read"]
    /\ UNCHANGED <<dsVars, reply, commit>>
    /\ lFrame

\* lines 361-370: the request reads the chain and returns, which runs the
\* deferred RUnlock
ReadBlock(r) ==
    /\ readers[r].pc = "read"
    /\ lastErr' = getblock("int", readers[r].height).err
    /\ reply' = getblock("int", readers[r].height).reply
    /\ mutex' = [mutex EXCEPT !.readers = @ - 1]
    /\ readers' = [readers EXCEPT ![r].pc = "idle"]
    /\ UNCHANGED <<dsFrame, stagedBlocks, stagedTransactions,
                   incomingTransactions, commit>>
    /\ lFrame

\* no Commit and no getblock is in progress
AtRest ==
    /\ commit.pc = "idle"
    /\ \A r \in Readers : readers[r].pc = "idle"

-----------------------------------------------------------------------------
(* The darkside state machine *)

dsInit ==
    /\ resetted = FALSE
    /\ startHeight = 0
    /\ saplingActivation = 0
    /\ branchID = <<>>
    /\ chainName = <<>>
    /\ latestHeight = 0
    /\ activeBlocks = <<>>
    /\ stagedBlocks = <<>>
    /\ incomingTransactions = <<>>
    /\ stagedTransactions = <<>>
    /\ ingestor = FALSE
    /\ lastErr = ""

Init ==
    /\ dsInit
    /\ scenario \in Scenarios
    /\ fItems = <<>>
    /\ fExclude = <<>>
    /\ fResult = <<>>
    /\ fDone = FALSE
    /\ reply = NoReply
    /\ mInit
    /\ oInit

\* after Log.Fatal or a panic the process is gone
Running == lastErr \notin {Fatal, Panic}

Next ==
    \/ Running /\ Reset
    \/ Running /\ StageBlocksStream
    \/ Running /\ StageBlocks
    \/ Running /\ StageBlocksCreate
    \/ Running /\ StageTransactionsStream
    \/ Running /\ ApplyStaged
    \/ Running /\ SendTransaction
    \/ Running /\ SendRawTransaction
    \/ Running /\ ClearIncomingTransactions
    \/ Running /\ GetIncomingTransactions
    \/ Running /\ GetBlock
    \/ Running /\ GetRawTransaction

Spec == Init /\ [][Next]_vars

-----------------------------------------------------------------------------
(* MempoolFilter applied to every input within the bounds *)

FilterInit ==
    /\ dsInit
    /\ scenario = "blocks"
    /\ fItems \in ItemLists
    /\ fExclude \in ExcludeLists
    /\ fResult = <<>>
    /\ fDone = FALSE
    /\ reply = NoReply
    /\ mInit
    /\ oInit

FilterNext == CallMempoolFilter

FilterSpec == FilterInit /\ [][FilterNext]_vars

-----------------------------------------------------------------------------
(* GetMempoolTx called by clients at a time, against a node's mempool *)

MempoolInit ==
    /\ dsInit
    /\ scenario = "blocks"
    /\ fItems = <<>>
    /\ fExclude = <<>>
    /\ fResult = <<>>
    /\ fDone = FALSE
    /\ reply = NoReply
    /\ mInit
    /\ oInit

MempoolNext ==
    \/ \E c \in Calls : Enter(c)
    \/ \E c \in Calls : FetchListFails(c)
    \/ \E c \in Calls : FetchList(c)
    \/ \E c \in Calls : Iterate(c)
    \/ \E c \in Calls : Publish(c)
    \/ \E c \in Calls : Stream(c)
    \/ Tick

MempoolSpec == MempoolInit /\ [][MempoolNext]_vars

-----------------------------------------------------------------------------
(* Commits and getblock requests that run at the same time, beside the     *)
(* staging operations, which take no lock.  Reset, which replaces state    *)
(* and the mutex in it without taking the lock, runs here only while no    *)
(* Commit and no getblock is in progress.                                  *)

LockInit ==
    /\ dsInit
    /\ scenario = "reads"
    /\ fItems = <<>>
    /\ fExclude = <<>>
    /\ fResult = <<>>
    /\ fDone = FALSE
    /\ reply = NoReply
    /\ mInit
    /\ oInit

LockNext ==
    \/ Running /\ AtRest /\ Reset
    \/ Running /\ StageBlocksCreate
    \/ Running /\ StageTransactionsStream
    \/ Running /\ \E height \in Heights : CommitLock(height)
    \/ Running /\ CommitMerge
    \/ Running /\ CommitMerged
    \/ Running /\ CommitTx
    \/ Running /\ CommitTxsDone
    \/ Running /\ CommitRelink
    \/ Running /\ CommitReturn
    \/ Running /\ \E r \in Readers, height \in ReadHeights : ReadRequest(r, height)
    \/ Running /\ \E r \in Readers : ReadLock(r)
    \/ Running /\ \E r \in Readers : ReadBlock(r)

LockSpec == LockInit /\ [][LockNext]_vars

-----------------------------------------------------------------------------
(* The address-taking queries on every input within the bounds *)

AddrInit ==
    /\ dsInit
    /\ scenario = "blocks"
    /\ fItems = <<>>
    /\ fExclude = <<>>
    /\ fResult = <<>>
    /\ fDone = FALSE
    /\ reply = NoReply
    /\ mInit
    /\ addr \in AddrQueries
    /\ mutex = FreeMutex
    /\ commit = IdleCommit
    /\ readers = [r \in Readers |-> IdleReader]

AddrNext ==
    \/ CheckAddress
    \/ CheckRange
    \/ ChecksPassed
    \/ IssueRequest

AddrSpec == AddrInit /\ [][AddrNext]_vars

-----------------------------------------------------------------------------
(* Claims about MempoolFilter, checked under FilterSpec *)

\* how many entries of seq equal x
Occ(seq, x) == Cardinality({i \in 1..Len(seq) : seq[i] = x})
\* how many items have e as a prefix
NumPrefixed(items, e) == Cardinality({i \in 1..Len(items) : HasPrefix(items[i], e)})
ExcludeSet == {fExclude[i] : i \in 1..Len(fExclude)}
\* the exclude entries that are a prefix of x
PrefixesOf(x) == {e \in ExcludeSet : HasPrefix(x, e)}
\* the shortest of them
ShortestPrefixesOf(x) ==
    {e \in PrefixesOf(x) : \A e2 \in PrefixesOf(x) : Len(e) <= Len(e2)}

\* the result holds x as often as the items do when keep, else not at all
ReturnsExactly(keep(_)) ==
    \A x \in Strings :
        Occ(fResult, x) = IF keep(x) THEN Occ(fItems, x) ELSE 0

C9_KeptAsClaimed(x) ==
    ~\E e \in PrefixesOf(x) : NumPrefixed(fItems, e) = 1

C9_KeptByShortest(x) ==
    \A e \in ShortestPrefixesOf(x) : NumPrefixed(fItems, e) # 1

\* C9 as stated: MempoolFilter returns exactly the items for which no
\* exclude entry is a prefix of the item and a prefix of exactly one item.
C9_AsStated == fDone => ReturnsExactly(C9_KeptAsClaimed)

\* C9, amended: MempoolFilter returns exactly the items for which the
\* shortest exclude entry that is a prefix of the item is not a prefix of
\* exactly one item (an item that no exclude entry prefixes is returned); when
\* exclude entries are prefixes of one another, only the shortest decides.
C9_FilterByShortestPrefix == fDone => ReturnsExactly(C9_KeptByShortest)

\* the filter has run with an exclude entry that prefixes exactly one item
\* and a shorter exclude entry that prefixes that item and another, and the
\* item is returned
C9_Witness ==
    /\ fDone
    /\ \E i \in 1..Len(fItems) : \E e1, e2 \in PrefixesOf(fItems[i]) :
          /\ Len(e1) < Len(e2)
          /\ NumPrefixed(fItems, e2) = 1
          /\ NumPrefixed(fItems, e1) > 1
          /\ Occ(fResult, fItems[i]) = 1

\* C10: if an exclude entry is a prefix of more than one item, all of the
\* items it prefixes are in the output.
C10_AmbiguousAllSent ==
    fDone =>
        \A e \in ExcludeSet :
            NumPrefixed(fItems, e) > 1 =>
                \A i \in 1..Len(fItems) :
                    HasPrefix(fItems[i], e) =>
                        Occ(fResult, fItems[i]) = Occ(fItems, fItems[i])

\* the filter has run with an exclude entry that prefixes two items, which
\* it returned, and it has withheld a third item
C10_Witness ==
    /\ fDone
    /\ \E e \in ExcludeSet :
          /\ NumPrefixed(fItems, e) = 2
          /\ \A i \in 1..Len(fItems) :
                HasPrefix(fItems[i], e) => Occ(fResult, fItems[i]) >= 1
    /\ Len(fResult) = 2
    /\ Len(fItems) = 3

\* C31: the output of MempoolFilter is sorted, holds no string more often
\* than the items do, leaves an item out only if some exclude entry is a
\* prefix of it and of no other item, and holds every item that no exclude
\* entry prefixes.
C31_SortedSubList ==
    fDone =>
        /\ \A i \in 1..(Len(fResult) - 1) : ~StrLess(fResult[i + 1], fResult[i])
        /\ \A x \in Strings :
              /\ Occ(fResult, x) <= Occ(fItems, x)
              /\ Occ(fResult, x) < Occ(fItems, x) =>
                    \E e \in PrefixesOf(x) : NumPrefixed(fItems, e) = 1
              /\ PrefixesOf(x) = {} => Occ(fResult, x) = Occ(fItems, x)

\* the filter has run on three items: it returned two different ones, one of
\* which no exclude entry prefixes, and left out the third
C31_Witness ==
    /\ fDone
    /\ Len(fItems) = 3
    /\ Len(fResult) = 2
    /\ StrLess(fResult[1], fResult[2])
    /\ \E i \in 1..2 : PrefixesOf(fResult[i]) = {}
    /\ \E i \in 1..3 : Occ(fResult, fItems[i]) = 0

-----------------------------------------------------------------------------
(* Claims about the darkside state machine, checked under Spec *)

\* every block's previous-hash is the hash of the block before it, and the
\* first block's previous-hash is all-zero
Linked(active) ==
    \A i \in 1..Len(active) :
        active[i].prev = IF i = 1 THEN ZeroHash ELSE Hash(active[i - 1])

\* C1: after any Commit that returns success, activeBlocks[0]'s
\* previous-hash is all-zero and, for every i > 0, activeBlocks[i]'s
\* previous-hash equals the hash of activeBlocks[i-1].
C1_CommitLinksChain ==
    [][(ApplyStaged /\ lastErr' = "") => Linked(activeBlocks')]_vars

\* a Commit has succeeded on a chain of two blocks or more whose first block
\* was staged with a previous-hash that was not zero
C1_Witness ==
    /\ lastErr = ""
    /\ latestHeight >= 1
    /\ stagedBlocks = <<>>
    /\ Len(activeBlocks) >= 2
    /\ activeBlocks[1].merkle = UserBlock(2).merkle
    /\ Linked(activeBlocks)

\* C2: in every reachable state, the block stored at activeBlocks[i]
\* declares height startHeight + i.
C2_ContiguousHeights ==
    \A i \in 1..Len(activeBlocks) :
        activeBlocks[i].height = startHeight + (i - 1)

\* three blocks are active, the second of them one that replaced or followed
\* blocks of an earlier Commit
C2_Witness ==
    /\ Len(activeBlocks) = 3
    /\ startHeight = 1
    /\ activeBlocks[2].merkle = UserBlock(2).merkle

\* what identifies a block among those staged: its height and its header
Ident(b) == <<b.height, b.merkle>>
Idents(blocks) == [i \in 1..Len(blocks) |-> Ident(blocks[i])]

\* the merge as C3 states it, on [ids, start]
C3_MergeOne(chain, id) ==
    LET h == id[1]
    IN  IF chain.start <= h /\ h <= chain.start + Len(chain.ids)
        THEN [ids |-> Append(SelectSeq(chain.ids, LAMBDA x : x[1] < h), id),
              start |-> IF \E i \in 1..Len(chain.ids) : chain.ids[i][1] < h
                        THEN chain.start ELSE h]
        ELSE [ids |-> <<id>>, start |-> h]

RECURSIVE C3_MergeAll(_, _, _)
C3_MergeAll(chain, ids, i) ==
    IF i > Len(ids) THEN chain
    ELSE C3_MergeAll(C3_MergeOne(chain, ids[i]), ids, i + 1)

\* C3: when Commit merges a staged block of height h inside the active range
\* (startHeight <= h <= startHeight + len(activeBlocks)), exactly the active
\* blocks at heights >= h are discarded, those below are kept and the block
\* becomes the last block; when h is discontiguous, the whole prior sequence
\* is discarded and the block becomes the only active block, startHeight = h.
\* (A Commit that has merged every staged block leaves stagedBlocks empty.)
C3_MergeSemantics ==
    [][(ApplyStaged /\ resetted /\ stagedBlocks' = <<>>) =>
          LET expected == C3_MergeAll([ids |-> Idents(activeBlocks),
                                       start |-> startHeight],
                                      Idents(stagedBlocks), 1)
          IN  /\ Idents(activeBlocks') = expected.ids
              /\ Len(activeBlocks') > 0 => startHeight' = expected.start]_vars

\* three blocks are active after two Commits or more, the second Commit
\* having merged into a range that held blocks
C3_Witness ==
    /\ lastErr = ""
    /\ stagedBlocks = <<>>
    /\ startHeight = 1
    /\ Len(activeBlocks) = 3
    /\ activeBlocks[3].merkle = UserBlock(2).merkle \/ activeBlocks[2].merkle = UserBlock(2).merkle

\* what C4 speaks of in a block: its payload and its transaction-count byte
Payloads(blocks) ==
    [i \in 1..Len(blocks) |-> [txs |-> blocks[i].txs,
                               txcount |-> blocks[i].txcount]]

TooMany == "too many transactions in a block (max 253)"

\* the placement as C4 states it, on [blocks, full, stop]: a transaction whose
\* target is active and below the ceiling is appended and counted, one whose
\* target is at the ceiling ends the Commit with the block as it was
RECURSIVE C4_PlaceAll(_, _, _, _)
C4_PlaceAll(st, start, txs, i) ==
    IF i > Len(txs) \/ st.full \/ st.stop THEN st
    ELSE LET k == txs[i].height - start + 1
         IN  IF k < 1 \/ k > Len(st.blocks)
             THEN [st EXCEPT !.stop = TRUE]
             ELSE IF st.blocks[k].txcount < MaxTxCount
             THEN C4_PlaceAll(
                      [st EXCEPT !.blocks[k].txs = Append(@, txs[i].bytes),
                                 !.blocks[k].txcount = @ + 1],
                      start, txs, i + 1)
             ELSE [st EXCEPT !.full = TRUE]

\* C4: a Commit with a staged transaction targeting height h, where block h
\* is active and holds fewer than 253 transactions, appends the transaction's
\* bytes to the end of block h's payload and increments that block's
\* transaction-count byte by exactly 1; when the target block's count byte is
\* already 253 the Commit fails with the too-many-transactions error and that
\* block is left unmodified.
C4_PlaceTransactions ==
    [][(ApplyStaged /\ resetted /\ stagedBlocks' = <<>>) =>
          LET m == mergeStaged(activeBlocks, startHeight, stagedBlocks, 1)
              e == C4_PlaceAll([blocks |-> Payloads(m.active),
                                full |-> FALSE, stop |-> FALSE],
                               m.start, stagedTransactions, 1)
          IN  /\ Payloads(activeBlocks') = e.blocks
              /\ e.full => lastErr' = TooMany]_vars

\* a Commit has failed on a block at the ceiling, which holds the one
\* transaction an earlier Commit appended to it
C4_Witness ==
    /\ lastErr = TooMany
    /\ \E i \in 1..Len(activeBlocks) :
           /\ activeBlocks[i].txcount = MaxTxCount
           /\ Len(activeBlocks[i].txs) = 1
           /\ \E j \in 1..Len(stagedTransactions) :
                  stagedTransactions[j].height = startHeight + (i - 1)

\* C5: after every Commit call issued after Reset, whether it returns success
\* or any error, stagedTransactions is empty.
C5_StagedTransactionsCleared ==
    [][(ApplyStaged /\ resetted) => stagedTransactions' = <<>>]_vars

\* every staged block merges and every staged transaction is placed in its
\* target block
C6_AllMergedAndPlaced ==
    LET m == mergeStaged(activeBlocks, startHeight, stagedBlocks, 1)
        e == C4_PlaceAll([blocks |-> Payloads(m.active),
                          full |-> FALSE, stop |-> FALSE],
                         m.start, stagedTransactions, 1)
    IN  m.err = "" /\ ~e.full /\ ~e.stop

NoBlock == "one or more transactions have no block"

\* C6: a Commit(height) issued after Reset in which every staged block merges
\* and every staged transaction is placed in its target block returns
\* success, relinks the chain and leaves latestHeight = height; Commit fails
\* with the transactions-have-no-block error only when some staged
\* transaction could not be placed.
C6_CommitSucceedsWhenAllPlaced ==
    [][\A height \in Heights :
          (ApplyStagedCall(height) /\ resetted) =>
              /\ C6_AllMergedAndPlaced =>
                    /\ lastErr' = ""
                    /\ Linked(activeBlocks')
                    /\ latestHeight' = height
              /\ lastErr' = NoBlock => ~C6_AllMergedAndPlaced]_vars

\* C7: after a successful Reset, whatever sequence of operations preceded it,
\* activeBlocks, stagedBlocks, stagedTransactions and incomingTransactions are
\* all empty, latestHeight = -1, resetted = true, and the metadata equals the
\* Reset arguments.
C7_ResetClearsAll ==
    [][\A sa \in SaplingInputs, bi \in BranchInputs, cn \in ChainInputs :
          (ResetCall(sa, bi, cn) /\ lastErr' = "") =>
              /\ activeBlocks' = <<>>
              /\ stagedBlocks' = <<>>
              /\ stagedTransactions' = <<>>
              /\ incomingTransactions' = <<>>
              /\ latestHeight' = -1
              /\ resetted'
              /\ saplingActivation' = sa
              /\ branchID' = bi
              /\ chainName' = cn]_vars

\* a Reset has succeeded, with arguments other than those of the Reset
\* before it
C7_Witness ==
    /\ resetted
    /\ lastErr = ""
    /\ activeBlocks = <<>>
    /\ stagedBlocks = <<>>
    /\ stagedTransactions = <<>>
    /\ incomingTransactions = <<>>
    /\ latestHeight = -1
    /\ saplingActivation = 2
    /\ branchID = <<"2", "b">>

\* the state of the mock node
dsState ==
    <<resetted, startHeight, saplingActivation, branchID, chainName,
      latestHeight, activeBlocks, stagedBlocks, incomingTransactions,
      stagedTransactions, ingestor>>

\* C8: before the first Reset, every mutating test-control operation
\* (stage-block single or streamed, stage-synthetic-blocks, stage-transaction,
\* commit, record/send incoming transaction, clear-incoming) fails with the
\* call-Reset-first error and changes no state.
C8_NothingBeforeReset ==
    [][(/\ ~resetted
        /\ \/ StageBlocksStream
           \/ StageBlocks
           \/ StageBlocksCreate
           \/ StageTransactionsStream
           \/ ApplyStaged
           \/ SendTransaction
           \/ SendRawTransaction
           \/ ClearIncomingTransactions) =>
          /\ lastErr' = NotReset
          /\ UNCHANGED dsState]_vars

\* C17: in every reachable state incomingTransactions holds, in submission
\* order, exactly the transactions accepted by RecordIncoming or
\* send-raw-transaction since the last Reset or ClearIncoming: an accepted
\* submission appends its bytes, a successful Reset and a ClearIncoming empty
\* the list, staging operations and Commit leave it as it is, and a
\* RecordIncoming that fails (not yet reset, or bytes that do not decode with
\* nothing left over) leaves it unchanged.
C17_IncomingIsSubmissionLog ==
    [][/\ \A txHex \in TxLines :
             SendTransactionCall(txHex) =>
                 /\ (~resetted \/ ~HexOK(txHex) \/ ~txHex.bytes.wf) =>
                        lastErr' # "" /\ UNCHANGED incomingTransactions
                 /\ lastErr' = "" =>
                        incomingTransactions' =
                            Append(incomingTransactions, txHex.bytes)
       /\ \A jsonOK \in BOOLEAN, rawtx \in TxLines :
             SendRawTransactionCall(jsonOK, rawtx) =>
                 incomingTransactions' =
                     IF lastErr' = ""
                     THEN Append(incomingTransactions, rawtx.bytes)
                     ELSE incomingTransactions
       /\ ((Reset /\ lastErr' = "") \/ ClearIncomingTransactions) =>
             incomingTransactions' = <<>>
       /\ (Reset /\ lastErr' # "") => UNCHANGED incomingTransactions
       /\ \/ UNCHANGED incomingTransactions
          \/ ~(\/ StageBlocksStream
               \/ StageBlocks
               \/ StageBlocksCreate
               \/ StageTransactionsStream
               \/ ApplyStaged
               \/ GetIncomingTransactions)]_vars

\* two submissions have been accepted, the one that does not parse (by
\* send-raw-transaction) before the one that does, after a RecordIncoming
\* has failed
C17_Witness ==
    /\ resetted
    /\ Len(incomingTransactions) = 2
    /\ ~incomingTransactions[1].wf
    /\ incomingTransactions[2].wf
    /\ lastErr = "transaction does not parse"

\* the blocks the Synthetic Block Builder stages for its arguments, whatever
\* the state
C19_Built(height, nonce, count) ==
    [k \in 1..count |->
        [height |-> height + (k - 1),
         merkle |-> <<Rune(nonce), Rune(height + (k - 1))>>,
         prev |-> ZeroHash, marker |-> 0, txcount |-> 1, txs |-> <<>>,
         wf |-> TRUE]]

\* C19: the Synthetic Block Builder is deterministic: two invocations with
\* identical (startHeight, nonce, count), from any two states in which it is
\* accepted, stage byte-identical sequences of count blocks (a function of
\* the arguments alone), the k-th declaring height startHeight + k and
\* carrying a transaction count of 1.
C19_BuilderDeterministic ==
    [][\A height \in Heights, nonce \in Nonces, count \in 0..StagedCap :
          (StageBlocksCreateCall(height, nonce, count) /\ resetted) =>
              /\ stagedBlocks' =
                     stagedBlocks \o C19_Built(height, nonce, count)
              /\ \A k \in 1..count :
                     /\ stagedBlocks'[Len(stagedBlocks) + k].height
                            = height + (k - 1)
                     /\ stagedBlocks'[Len(stagedBlocks) + k].txcount = 1]_vars

\* the builder has run twice with the same arguments, the second time on a
\* staging area that held a block
C19_Witness ==
    /\ lastErr = ""
    /\ Len(stagedBlocks) = 2
    /\ stagedBlocks[1] = stagedBlocks[2]
    /\ stagedBlocks[1].txcount = 1
    /\ stagedBlocks[1].merkle = <<Rune(1), Rune(stagedBlocks[1].height)>>

\* C20: after a successful Commit the background ingestor is running if and
\* only if activeBlocks is non-empty, and after Reset it is stopped.
C20_IngestorFollowsChain ==
    [][/\ (ApplyStaged /\ lastErr' = "") =>
              (ingestor' <=> activeBlocks' # <<>>)
       /\ (Reset /\ lastErr' = "") => ~ingestor']_vars

\* a Commit has succeeded on an empty chain, after a Reset that stopped an
\* ingestor another Commit had started
C20_Witness ==
    /\ lastErr = ""
    /\ latestHeight >= 1
    /\ activeBlocks = <<>>
    /\ ~ingestor
    /\ branchID = <<"2", "b">>

\* C11: in every reachable state, get-block(height) returns the not-found
\* error when activeBlocks is empty or height > latestHeight, and otherwise
\* returns the bytes of the existing active block
\* activeBlocks[height - startHeight]; for no reachable state and no
\* requested height does it index outside activeBlocks.
C11_GetBlockInRange ==
    [][\A height \in ReadHeights :
          GetBlockCall("int", height) =>
              IF activeBlocks = <<>> \/ height > latestHeight
              THEN lastErr' = NotFound /\ reply' = NoReply
              ELSE /\ height - startHeight \in 0..(Len(activeBlocks) - 1)
                   /\ lastErr' = ""
                   /\ reply' = [kind |-> "block",
                                bytes |-> activeBlocks[height - startHeight + 1]]
      ]_vars

\* the active blocks that hold a transaction with this id
C18_Holders(txid) ==
    {i \in 1..Len(activeBlocks) :
        \E j \in 1..Len(Transactions(activeBlocks[i])) :
            Transactions(activeBlocks[i])[j].id = txid}

\* C18: get-raw-transaction(txid) fails if Reset has not been called;
\* otherwise it returns the bytes and the height of the first active block,
\* in height order, that contains a transaction with that id, and returns
\* the 'no information' error when no active block contains one.
C18_AsStated ==
    [][\A txid \in ReadTxids :
          GetRawTransactionCall("hex", txid) =>
              IF ~resetted
              THEN lastErr' = NotReset /\ reply' = NoReply
              ELSE IF C18_Holders(txid) = {}
              THEN lastErr' = NoInformation /\ reply' = NoReply
              ELSE LET i == CHOOSE i \in C18_Holders(txid) :
                                \A k \in C18_Holders(txid) : i <= k
                   IN  /\ lastErr' = ""
                       /\ reply'.kind = "tx"
                       /\ reply'.hex.id = txid
                       /\ reply'.height = activeBlocks[i].height
                       /\ reply'.height = startHeight + (i - 1)]_vars

\* the active blocks that do not decode
C18_Undecodable == {i \in 1..Len(activeBlocks) : ~ParseOK(activeBlocks[i])}

\* C18 (amended): get-raw-transaction(txid) fails if Reset has not been
\* called; otherwise it scans the active blocks in height order, decoding
\* each: it returns the bytes and the height of the first block that contains
\* a transaction with that id when every block up to it decodes, fails with
\* a decode error when a block that does not decode comes first, and returns
\* the 'no information' error when every block decodes and none contains
\* one; a transaction that a Commit placed in block h is returned with
\* height h.
C18_FirstMatchAmongDecodable ==
    [][\A txid \in ReadTxids :
          GetRawTransactionCall("hex", txid) =>
              LET stops == C18_Undecodable \cup C18_Holders(txid)
                  i == CHOOSE i \in stops : \A k \in stops : i <= k
              IN  IF ~resetted
                  THEN lastErr' = NotReset /\ reply' = NoReply
                  ELSE IF stops = {}
                  THEN lastErr' = NoInformation /\ reply' = NoReply
                  ELSE IF i \in C18_Undecodable
                  THEN lastErr' = "-9: block does not parse" /\ reply' = NoReply
                  ELSE /\ lastErr' = ""
                       /\ reply'.kind = "tx"
                       /\ reply'.hex.id = txid
                       /\ reply'.height = startHeight + (i - 1)]_vars

\* the transaction a Commit placed in the second of two active blocks has
\* been returned with that block's height
C18_Witness ==
    /\ lastErr = ""
    /\ reply.kind = "tx"
    /\ reply.hex.id = 1
    /\ Len(activeBlocks) = 2
    /\ reply.height = activeBlocks[2].height
    /\ \E j \in 1..Len(activeBlocks[2].txs) : activeBlocks[2].txs[j].id = 1

\* the last active block, if there is one
C23_Tip(active) ==
    IF Len(active) = 0 THEN <<>> ELSE Ident(active[Len(active)])

\* C23: Commit merges the staged blocks in their arrival order, not in height
\* order (so when two staged blocks declare the same height the
\* later-arriving one is the one left active, and a block arriving after a
\* lower, reorging block is appended on top of it), and after a successful
\* Commit stagedBlocks is empty.  In arrival order the last staged block to
\* merge is the active tip, whatever the heights: the latest arrival when
\* all merge (which leaves stagedBlocks empty), the first arrival when it
\* merges and the second does not parse.
C23_MergeInArrivalOrder ==
    [][(ApplyStaged /\ resetted /\ Len(stagedBlocks) > 0) =>
          LET n == Len(stagedBlocks)
              last == stagedBlocks[n]
          IN  /\ lastErr' = "" => stagedBlocks' = <<>>
              /\ stagedBlocks' = <<>> =>
                    /\ C23_Tip(activeBlocks') = Ident(last)
                    /\ (n > 1 /\ last.height = stagedBlocks[n - 1].height + 1) =>
                          /\ Len(activeBlocks') > 1
                          /\ Ident(activeBlocks'[Len(activeBlocks') - 1]) =
                                 Ident(stagedBlocks[n - 1])
              /\ (/\ n > 1
                  /\ addBlockActive(activeBlocks, startHeight,
                                    stagedBlocks[1]).err = ""
                  /\ ~ParseOK(stagedBlocks[2])) =>
                    /\ C23_Tip(activeBlocks') = Ident(stagedBlocks[1])
                    /\ lastErr' # ""]_vars

\* a Commit has succeeded that left a staged block of height 2 under a
\* block of height 3, or a block of height 2 alone where the block an
\* earlier arrival put there would have been another
C23_Witness ==
    /\ lastErr = ""
    /\ resetted
    /\ stagedBlocks = <<>>
    /\ startHeight = 2
    /\ Len(activeBlocks) = 2
    /\ Ident(activeBlocks[1]) = Ident(UserBlock(2))
    /\ Ident(activeBlocks[2]) = Ident(fakeBlock(3, 1))
    /\ Linked(activeBlocks)

TooLow == "transaction height too low"
TooHigh == "transaction height too high"

\* the staged transactions whose height lies outside the blocks that are
\* active once the staged blocks of this Commit are merged
C24_Outside ==
    LET m == mergeStaged(activeBlocks, startHeight, stagedBlocks, 1)
    IN  {i \in 1..Len(stagedTransactions) :
            \/ stagedTransactions[i].height < m.start
            \/ stagedTransactions[i].height >= m.start + Len(m.active)}

C26_Presented ==
    <<activeBlocks, startHeight, latestHeight, chainName, branchID,
      saplingActivation>>

\* C26: staging and incoming-transaction operations (StageBlock,
\* StageBlocksFromSource, StageSyntheticBlocks, StageTransaction,
\* RecordIncoming, send-raw-transaction, GetIncoming, ClearIncoming) leave
\* activeBlocks, startHeight and latestHeight unchanged: what get-block,
\* get-raw-transaction and chain-info present changes only through Commit
\* or Reset.
C26_StagingLeavesChain ==
    [][/\ \/ UNCHANGED <<activeBlocks, startHeight, latestHeight>>
          \/ ~(\/ StageBlocksStream
               \/ StageBlocks
               \/ StageBlocksCreate
               \/ StageTransactionsStream
               \/ SendTransaction
               \/ SendRawTransaction
               \/ GetIncomingTransactions
               \/ ClearIncomingTransactions)
       /\ UNCHANGED C26_Presented \/ ApplyStaged \/ Reset]_vars

\* two blocks are staged beside a chain of one block that a Commit has
\* presented, and the last operation returned success
C26_Witness ==
    /\ Len(activeBlocks) = 1
    /\ latestHeight >= startHeight
    /\ Len(stagedBlocks) = 2
    /\ lastErr = ""

\* C28: in every reachable state with a non-empty active sequence,
\* latestHeight is at most startHeight + len(activeBlocks) - 1 (the tip
\* reported by chain-info never exceeds the height of the last active
\* block), whatever height argument was passed to Commit.
C28_TipWithinChain ==
    Len(activeBlocks) > 0 => latestHeight <= startHeight + Len(activeBlocks) - 1

\* each active block other than the first carries the hash of the block
\* before it
C29_HashChain(active) ==
    \A i \in 2..Len(active) : active[i].prev = Hash(active[i - 1])

\* C29 as stated: in every reachable state, including after a Commit that
\* returned an error, each active block other than the first carries in its
\* previous-hash field the current hash of the block before it.
C29_AsStated == C29_HashChain(activeBlocks)

\* this Commit merges the staged blocks and places a staged transaction
C29_PlacesTransaction ==
    /\ resetted
    /\ LET m == mergeStaged(activeBlocks, startHeight, stagedBlocks, 1)
       IN  /\ m.err = ""
           /\ applyTxs(m.active, m.start, stagedTransactions, 1).active # m.active

\* C29 (amended): the active blocks form a hash chain after every Commit
\* that returned success, and every operation keeps the hash chain, a Commit
\* that returns an error after merging blocks included, but for a Commit
\* that places a staged transaction: it changes the hash of the block it
\* writes to and returns before the chain is relinked.
C29_HashChainUntilPlacement ==
    [][/\ (ApplyStaged /\ lastErr' = "") => C29_HashChain(activeBlocks')
       /\ \/ ~C29_HashChain(activeBlocks)
          \/ C29_HashChain(activeBlocks')
          \/ (ApplyStaged /\ C29_PlacesTransaction)]_vars

\* a Commit has returned an error on its second staged block after it
\* merged the first on top of an active block, and the two are linked
C29_Witness ==
    /\ lastErr = "block does not parse"
    /\ Len(stagedBlocks) = 2
    /\ Len(activeBlocks) = 2
    /\ activeBlocks[2] = stagedBlocks[1]
    /\ activeBlocks[2].prev = Hash(activeBlocks[1])

\* C30: each staged transaction is appended to the active chain at most
\* once: over any sequence of Commit calls following a StageTransaction,
\* the transaction's bytes are added to a block, and that block's
\* transaction-count byte is incremented for it, no more than one time.
\* (stagedTransactions holds every transaction staged since Reset, so a
\* block holds a transaction at most as often as it is staged for the
\* block's height.)
C30_AppendedAtMostOnce ==
    \A k \in 1..Len(activeBlocks), tx \in TxInputs :
        Cardinality({j \in 1..Len(activeBlocks[k].txs) :
                        activeBlocks[k].txs[j] = tx})
        <= Cardinality({i \in 1..Len(stagedTransactions) :
                          /\ stagedTransactions[i].bytes = tx
                          /\ stagedTransactions[i].height = activeBlocks[k].height})

\* the elements of a bulk staging that come before the first malformed one
\* (one that is no hex), decoded
RECURSIVE C21_Before(_, _)
C21_Before(lines, i) ==
    IF i > Len(lines) \/ ~HexOK(lines[i]) THEN <<>>
    ELSE <<lines[i].bytes>> \o C21_Before(lines, i + 1)

C21_Malformed(lines) == \E i \in 1..Len(lines) : ~HexOK(lines[i])

\* C21: bulk block staging (from a URL source or from a client stream) fails
\* at the first malformed element: the call returns failure, the elements
\* before the malformed one remain staged, and no element after it is
\* staged.
C21_BulkStagingFailsFast ==
    [][\A lines \in BlockLineSeqs :
          C21_Malformed(lines) =>
              /\ (resetted /\ StageBlocksCall(TRUE, lines)) =>
                    /\ lastErr' # ""
                    /\ stagedBlocks' = stagedBlocks \o C21_Before(lines, 1)
              /\ \A broken \in BOOLEAN :
                    StageBlocksStreamCall(lines, broken) =>
                        /\ lastErr' # ""
                        /\ stagedBlocks' = stagedBlocks \o C21_Before(lines, 1)]_vars

-----------------------------------------------------------------------------
(* Claims about GetMempoolTx, checked under MempoolSpec *)

Range(seq) == {seq[i] : i \in 1..Len(seq)}

\* C12: a mempool Query running concurrently with another call's refresh
\* observes an id list and an id-to-entry map that belong to the same
\* snapshot: the map it reads is complete and was built for the ids of the
\* list it reads, never the newly fetched list with the previous map or a
\* partly built map.
C12_QuerySeesOneSnapshot ==
    [][\A c \in Calls :
          (Stream(c) /\ Ranging(c) # {}) =>
              /\ builtFrom.complete
              /\ Range(builtFrom.list) = Range(mempoolList)]_vars

\* the ids a call's refresh asked the node for and got no transaction
C13_Skipped(c) == calls[c].fetched \ DOMAIN calls[c].newmempoolMap

\* the entries a Query is to stream: those of the ids that survive the
\* filter and whose stored entry is non-empty, in the filter's order
C16_Expected(exclude) ==
    LET out == MempoolFilter(mempoolList, excludeHex(exclude))
        keep == SelectSeq(out, LAMBDA id :
                    /\ ~mempoolMap.nil
                    /\ id \in DOMAIN mempoolMap.at
                    /\ Len(mempoolMap.at[id].Hash) > 0)
    IN  [i \in 1..Len(keep) |-> mempoolMap.at[keep[i]]]

\* C13: when fetching a mempool transaction by id fails during a refresh, the
\* failure is not surfaced: the id is skipped, the refresh completes, and the
\* Query that triggered it finishes without failure, streaming the other
\* transactions.
C13_FetchFailureSwallowed ==
    [][\A c \in Calls :
          (Stream(c) /\ calls[c].refresh /\ C13_Skipped(c) # {}) =>
              /\ calls'[c].err = ""
              /\ calls'[c].sent = C16_Expected(calls'[c].exclude)]_vars

\* C14: when two mempool Query/Refresh calls are made less than 2 seconds
\* apart, the second issues no request to the node gateway and leaves the
\* snapshot (id list and id-to-entry map) identical to the one the first
\* call left.
C14_AsStated ==
    [][\A c \in Calls :
          (/\ Enter(c)
           /\ \E d \in Calls : /\ calls[d].time > ZeroTime
                               /\ now - calls[d].time < RefreshSeconds) =>
              /\ calls'[c].pc = "stream"
              /\ UNCHANGED <<mempoolList, mempoolMap>>]_vars

\* C14 (amended): a call that begins less than 2 seconds after the last
\* refresh began issues no request to the node gateway and leaves the
\* id-to-entry map as it was and the id list with the same ids, sorted.
C14_NoRefreshWithinTwoSeconds ==
    [][\A c \in Calls :
          /\ (Enter(c) /\ now - lastMempool < RefreshSeconds) =>
                /\ calls'[c].pc = "stream"
                /\ ~calls'[c].refresh
                /\ UNCHANGED <<mempoolList, mempoolMap, lastMempool>>
          /\ (Stream(c) /\ ~calls[c].refresh) =>
                /\ calls'[c].fetched = {}
                /\ UNCHANGED mempoolMap
                /\ mempoolList' = sortSlice(mempoolList)]_vars

\* a call that did not refresh has streamed a transaction of the snapshot a
\* call before it fetched
C14_Witness ==
    \E c \in Calls :
        /\ calls[c].pc = "idle"
        /\ calls[c].time > ZeroTime
        /\ ~calls[c].refresh
        /\ calls[c].fetched = {}
        /\ calls[c].err = ""
        /\ Len(calls[c].sent) > 0
        /\ calls[c].time - lastMempool < RefreshSeconds

\* C15: at each refresh, for every id of the freshly fetched id list that has
\* an entry in the previous map, no transaction fetch is issued for it and
\* the new map holds that same entry; every id that is absent from the fresh
\* id list has no entry in the new map.  (Stated for the refreshes that leave
\* no doubt about the two: mempoolList still holds the ids the node listed
\* for this call, and the map about to be replaced is the one the refresh
\* began with.)
C15_RefreshReusesEntries ==
    [][\A c \in Calls :
          (/\ Publish(c)
           /\ Range(mempoolList) = Range(calls[c].listed)
           /\ mempoolMap.at = calls[c].prev) =>
              /\ \A id \in Range(calls[c].listed) \cap DOMAIN calls[c].prev :
                    /\ id \notin calls[c].fetched
                    /\ id \in DOMAIN mempoolMap'.at
                    /\ mempoolMap'.at[id] = calls[c].prev[id]
              /\ DOMAIN mempoolMap'.at \subseteq Range(calls[c].listed)]_vars

\* C16: a mempool Query streams exactly the ids that survive the exclusion
\* filter and whose stored entry is non-empty, in the filter's output order;
\* an id whose stored entry is the empty placeholder is never sent.
C16_StreamsExactlyNonEmpty ==
    [][\A c \in Calls :
          Stream(c) =>
              /\ calls'[c].sent = C16_Expected(calls'[c].exclude)
              /\ \A i \in 1..Len(calls'[c].sent) :
                    Len(calls'[c].sent[i].Hash) > 0]_vars

\* C27: after any completed refresh, every id in the mempool id list has an
\* entry in the id-to-compact map, so a Query never looks up a surviving id
\* that has no stored entry.
C27_EveryListedIdHasEntry ==
    (/\ ~mempoolMap.nil
     /\ mapOwner = 0
     /\ \A c \in Calls : calls[c].pc \in {"idle", "stream"}) =>
        Range(mempoolList) \subseteq DOMAIN mempoolMap.at

-----------------------------------------------------------------------------
(* Claims about the address-taking queries, checked under AddrSpec *)

\* C22: for every address-taking query (balance, UTXO list, address txids),
\* if any supplied transparent address does not match the pattern 't'
\* followed by exactly 34 alphanumeric characters, the call fails with the
\* invalid-address error and no request is issued to the node gateway,
\* including when earlier addresses in the same list are valid.
C22_InvalidAddressNoRequest ==
    (\E i \in 1..Len(addr.addresses) :
        ~(/\ Len(addr.addresses[i]) = 1 + AddrLen
          /\ addr.addresses[i][1] = "t"
          /\ \A j \in 2..(1 + AddrLen) : addr.addresses[i][j] \in AlnumChars))
    => /\ addr.requests = <<>>
       /\ addr.pc # "request"
       /\ addr.pc = "done" => addr.err = InvalidAddress

\* a query has failed on its second address, one character too long, after
\* its first address passed the check
C22_Witness ==
    /\ addr.pc = "done"
    /\ addr.err = InvalidAddress
    /\ addr.requests = <<>>
    /\ Len(addr.addresses) = 2
    /\ addr.idx = 2
    /\ addr.addresses[1] = <<"t">> \o Fill("a", AddrLen)
    /\ Len(addr.addresses[2]) = AddrLen + 2

-----------------------------------------------------------------------------
(* Claims about state.mutex, checked under LockSpec *)

\* C25: a get-block request that runs concurrently with a Commit returns a
\* block of either the active chain as it was before the Commit started or
\* the chain as it is after the Commit returned; it never observes the
\* active sequence between the merge of staged blocks and the final relink
\* and latestHeight update.  The request reads the chain only while no
\* Commit is between its Lock and its return, and what it returns is the
\* block of that chain at its height.
C25_GetBlockOutsideCommit ==
    [][\A r \in Readers :
          ReadBlock(r) =>
              /\ commit.pc = "idle"
              /\ ~mutex.writer
              /\ reply'.kind = "block" =>
                    /\ readers[r].height - startHeight + 1 \in 1..Len(activeBlocks)
                    /\ reply'.bytes =
                           activeBlocks[readers[r].height - startHeight + 1]]_vars

\* a get-block request that came while a Commit held the lock has returned
\* a block of the chain the Commit left
C25_Witness ==
    /\ reply.kind = "block"
    /\ commit.pc = "idle"
    /\ \E r \in Readers :
          /\ readers[r].pc = "idle"
          /\ readers[r].waited
          /\ reply.bytes.height = readers[r].height
    /\ latestHeight >= startHeight

====
